---- MODULE Spec2Model ----
(***************************************************************************)
(* Accessibility auditor browser extension: the scan orchestrator of the   *)
(* popup, the per-tab Result Store of the service worker, and the result   *)
(* normalizer of the injected runner script.                               *)
(*                                                                         *)
(*   Spec        popup of background/service-worker.js (guarded scans,     *)
(*               result store, restore) against the browser's tabs         *)
(*   SpecStore   the service worker's listeners alone, tabs 1, 11 and 12   *)
(*   SpecPopup   popup of unnamed/part_004 (runScan without in-flight flag)*)
(*   SpecRunner  normalizeResults / filterByImpact / handleScan /          *)
(*               runA11yScan of the runner script over bounded inputs      *)
(*   SpecEngine     the engine call the runner configures                   *)
(*   SpecStability  waitForDomStability with its observer and timers        *)
(*   SpecExport     the SARIF, HTML and JSON exports of a report            *)
(*   SpecPolicy     loadPolicy of the popup scripts                         *)
(*   SpecMessage    the runner's message listeners in one document          *)
(***************************************************************************)
EXTENDS Integers, Sequences, FiniteSets, TLC

\* ------------------------------------------------------------------ bounds
\* number of handler activations (clicks whose async function is pending)
MaxCalls == 2

\* the most outcomes the engine reports on a page
MaxOutcomes == 3

\* the most violations of an exported report, and the most nodes of one
MaxViolations == 2

MaxNodes == 2

\* the most calls of loadPolicy in the life of a popup
MaxLoads == 3

\* the most injections of the runner script into one document
MaxInjections == 3

Procs == 1..MaxCalls

\* the tabs of the popup's window
TabIds == {1}

\* the tabs whose reports the service worker holds; 1, 11 and 12 share a
\* decimal prefix
StoreTabs == {1, 11, 12}

\* page URLs, as character sequences
Urls == {<<"a">>, <<"b">>}

\* ------------------------------------------------------- program constants
maxAttempts == 50

NoIframesAttempts == 40

BasicAttempts == 30

PopupAttempts == 40

\* ------------------------------------------------------------------- state
VARIABLES
  resultsByTab,   \* service worker: Map key -> report
  tabs,           \* browser: tab id -> [url, open]
  active,         \* browser: id of the active tab of the window, 0 = none
  pageResult,     \* page: window.__A11Y_SCAN_RESULT__ is set, per tab
  pageError,      \* page: window.__A11Y_SCAN_ERROR__ is set, per tab
  popupOpen,      \* the popup document exists
  isScanning,     \* popup: the in-flight flag
  ui,             \* popup: what statusEl / resultsEl show
  pc,             \* popup: position of each pending scan handler
  kind,           \* popup: which scan function the handler runs
  tab,            \* popup: the tab each handler resolved (const tab)
  i,              \* popup: loop counter of the polling loop
  result,         \* popup: let result
  rpc,            \* popup: position of restoreIfExists
  rtab,           \* popup: the tab restoreIfExists resolved
  restored,       \* popup: the report restoreIfExists rendered last
  lastCall,       \* how the last scan request was answered
  reply,          \* service worker: the response to the last message
  event,          \* service worker: the last tab event delivered
  raw,            \* runner: the RawEngineResult the engine returns on this page
  runner,         \* runner: which runner script is injected
  request,        \* runner: the config of the last scan
  path,           \* runner: the entry point of the last scan
  report,         \* runner: the report the last scan returned
  normalized,     \* runner: const normalized of handleScan, as
                  \* normalizeResults returned it and as it is afterwards
  engineTags,     \* engine: the tags of the rules registered in window.axe
  axeCall,        \* engine: the options of the last window.axe.run call
  warned,         \* runner: the tags of the last console.warn of runAxe
  now,            \* runner: Date.now() in ms since waitForDomStability began
  wait,           \* runner: the promise of waitForDomStability and its closure
  activeResults,  \* popup / reporter: the report the exporters read
  exported,       \* reporter: the document of the last export
  policyScript,   \* policy: the script whose loadPolicy is running
  policyFile,     \* policy: what fetching policy.json yields
  policy,         \* policy: let policy, the cache of loadPolicy
  loaded,         \* policy: the calls of loadPolicy and how the last ended
  listeners,      \* page: the onMessage listeners the runner registered
  runnerMessage,  \* page: the request the listeners are handling
  scanRuns,       \* page: handleScan of each listener for the request
  responses,      \* page: the sendResponse calls for the request
  delivered       \* sender: the response its callback received

vars == <<resultsByTab, tabs, active, pageResult, pageError, popupOpen,
          isScanning, ui, pc, kind, tab, i, result, rpc, rtab, restored,
          lastCall, reply, event, raw, runner, request, path, report,
          normalized, engineTags, axeCall, warned, now, wait, activeResults, exported,
          policyScript, policyFile, policy, loaded,
          listeners, runnerMessage, scanRuns, responses, delivered>>

browserVars == <<tabs, active, pageResult, pageError>>

procVars == <<pc, kind, tab, i, result>>

restoreVars == <<rpc, rtab, restored>>

workerVars == <<reply, event>>

engineVars == <<raw, runner, request, path, report, normalized, engineTags,
               axeCall, warned>>

stabilityVars == <<now, wait>>

reporterVars == <<activeResults, exported>>

\* the components modelled apart from the popup, the store and the runner
policyVars == <<policyScript, policyFile, policy, loaded>>

messageVars == <<listeners, runnerMessage, scanRuns, responses, delivered>>

restVars == <<reporterVars, policyVars, messageVars>>

runnerVars == <<engineVars, stabilityVars, restVars>>

popupVars == <<popupOpen, isScanning, ui, pc, kind, tab, i, result, rpc, rtab,
               restored, lastCall>>

\* ----------------------------------------------------------------- values
NoTab == [id |-> 0, url |-> <<>>]

\* doc: "current" while the document the report was produced from is still
\* the one its tab shows, "previous" once that tab has navigated away
NoReport == [url |-> <<>>, note |-> "none", doc |-> "none"]

DigitChars == <<"0", "1", "2", "3", "4", "5", "6", "7", "8", "9">>

RECURSIVE Digits(_)
\* `${tab.id}`: the decimal digits of a tab id
Digits(n) ==
  IF n < 10 THEN <<DigitChars[n + 1]>>
  ELSE Digits(n \div 10) \o <<DigitChars[(n % 10) + 1]>>

\* `${tab.id}:${tab.url}`
tabKey(t) == Digits(t.id) \o <<":">> \o t.url

\* String.prototype.startsWith
startsWith(s, prefix) ==
  /\ Len(prefix) <= Len(s)
  /\ SubSeq(s, 1, Len(prefix)) = prefix

\* resultsByTab.get(msg.key) || null
GET_A11Y_RESULTS(key) ==
  IF key \in DOMAIN resultsByTab THEN resultsByTab[key] ELSE NoReport

\* mutant: the handler keeps only the entry it was sent
SAVE_A11Y_RESULTS_replacesMap(key, results) == [k \in {key} |-> results]

\* resultsByTab.set(msg.key, msg.results)
SAVE_A11Y_RESULTS(key, results) ==
  [k \in (DOMAIN resultsByTab) \cup {key} |->
     IF k = key THEN results ELSE resultsByTab[k]]

\* mutant: the prefix lacks the ':' separator
belongsTo_noSeparator(key, tabId) == startsWith(key, Digits(tabId))

\* the key filter of the onUpdated / onRemoved listeners
belongsTo(key, tabId) == startsWith(key, Digits(tabId) \o <<":">>)

\* for (const key of resultsByTab.keys()) if (key.startsWith(...)) delete
invalidate(tabId) ==
  [k \in {key \in DOMAIN resultsByTab : ~belongsTo(key, tabId)} |->
     resultsByTab[k]]

\* chrome.tabs.query({ active: true, currentWindow: true })
queryActiveTab ==
  IF active \in TabIds /\ tabs[active].open
  THEN [id |-> active, url |-> tabs[active].url]
  ELSE NoTab

\* the lowest free handler slot
FreeProc == CHOOSE p \in Procs : pc[p] = "idle" /\ \A q \in Procs : q < p => pc[q] # "idle"

HasFreeProc == \E p \in Procs : pc[p] = "idle"

\* mutant: the loop condition is i <= maxAttempts
attemptsOf_extraPoll(k) ==
  CASE k = "runScan" -> maxAttempts + 1
    [] k = "runNoIframesScan" -> NoIframesAttempts + 1
    [] k = "runBasicScan" -> BasicAttempts + 1
    [] OTHER -> PopupAttempts + 1

\* maximum number of polls of each scan function
attemptsOf(k) ==
  CASE k = "runScan" -> maxAttempts
    [] k = "runNoIframesScan" -> NoIframesAttempts
    [] k = "runBasicScan" -> BasicAttempts
    [] OTHER -> PopupAttempts

\* ------------------------------------------------------------ runner values
\* the impact levels of the engine (severityCounts keys, part_002:89-94)
ImpactLevels == {"critical", "serious", "moderate", "minor"}

\* an outcome the engine reports without an impact
null == "null"

Categories == {"violations", "passes", "incomplete", "inapplicable"}

\* the impacts the engine gives the outcomes of a category: every violation
\* has a level, passes and incomplete outcomes may have none, inapplicable
\* outcomes never have one
impactsOf(cat) ==
  CASE cat = "violations" -> ImpactLevels
    [] cat = "inapplicable" -> {null}
    [] OTHER -> ImpactLevels \cup {null}

EmptyRaw == [c \in Categories |-> <<>>]

totalOutcomes(r) ==
  Len(r.violations) + Len(r.passes) + Len(r.incomplete) + Len(r.inapplicable)

\* the engine's result with one more outcome in a category; id is the rule's
\* position in its sequence
addOutcome(r, cat, imp) ==
  [r EXCEPT ![cat] = Append(@, [id |-> Len(@) + 1, impact |-> imp])]

\* every RawEngineResult of at most n outcomes
RECURSIVE RawResults(_)
RawResults(n) ==
  IF n = 0 THEN {EmptyRaw}
  ELSE LET smaller == RawResults(n - 1)
       IN smaller \cup
          {addOutcome(r, cat, imp) :
             <<r, cat, imp>> \in
               {x \in smaller \X Categories \X (ImpactLevels \cup {null}) :
                  x[3] \in impactsOf(x[2])}}

\* handleScan not called yet
NoNormalized == [before |-> <<>>, after |-> <<>>]

\* config.impacts: isArray is FALSE when the config carries no impacts
\* tags is config.tags, empty when the config carries none
NoConfig == [isArray |-> FALSE, values |-> <<>>, tags |-> <<>>]

Configs ==
  {NoConfig} \cup
  {[isArray |-> TRUE, values |-> f, tags |-> <<>>] :
     f \in {<<>>, <<"minor">>, <<"critical", "serious">>,
            <<"critical", "serious", "moderate">>,
            <<"critical", "serious", "minor">>,
            <<"critical", "serious", "moderate", "minor">>}}

Runners == {"part_002", "part_003"}

\* the tags of the rules the engine ships with, in getRules() order
DefaultEngineTags == <<"wcag2a", "wcag2aa", "best-practice", "experimental">>

\* the same after axe.configure registered a rule with a tag of its own
EngineTagLists ==
  {DefaultEngineTags, DefaultEngineTags \o <<"custom">>}

\* no window.axe.run call yet
NoCall == [runOnly |-> FALSE, values |-> <<>>, resultTypes |-> <<>>]

\* the tag lists a caller asks for; wcag99aa is a tag no engine knows
TagRequests ==
  {<<>>, <<"wcag2a">>, <<"wcag99aa">>, <<"wcag2aa", "wcag99aa", "wcag2a">>,
   <<"custom", "wcag2aa">>}

EngineConfigs ==
  {[NoConfig EXCEPT !.tags = t] : t \in TagRequests} \cup
  {[isArray |-> TRUE, values |-> <<"critical", "serious">>, tags |-> t] :
     t \in {<<>>, <<"wcag2aa", "wcag99aa", "wcag2a">>}}

\* waitForDomStability not called yet. observed is the time of the last
\* mutation the observer was told of (none: empty), configured the
\* domQuietMs of the caller's config (none: empty); observing, interval and
\* timeout tell whether the call's MutationObserver is connected and its
\* setInterval and setTimeout are active, resolves counts the calls of
\* resolve()
NoWait ==
  [pc |-> "idle", script |-> "none", quietWindowMs |-> 0, maxWaitMs |-> 0,
   lastMutation |-> 0, nextTick |-> 0, resolvedAt |-> 0,
   observed |-> <<>>, configured |-> <<>>,
   observing |-> FALSE, interval |-> FALSE, timeout |-> FALSE,
   resolves |-> 0]

\* the runner scripts of the repository: part_001 is the first script of
\* that file
EngineRunners == Runners \cup {"part_001"}

\* -------------------------------------------------------- reporter values
\* activeResults before the first scan rendered
NoActiveResults ==
  [set |-> FALSE, url |-> <<>>, violations |-> <<>>, passes |-> <<>>,
   incomplete |-> <<>>]

\* nothing exported yet
NoExport ==
  [by |-> "none", file |-> "none", runs |-> <<>>, report |-> NoActiveResults,
   html |-> <<>>]

ReporterIdle ==
  /\ activeResults = NoActiveResults
  /\ exported = NoExport

\* ---------------------------------------------------------- policy values
\* let policy = null
NoPolicy == [set |-> FALSE, hasTags |-> FALSE, tags |-> <<>>, standards |-> FALSE]

\* no loadPolicy call yet. outcome is how the last call ended, value what it
\* returned, scan how the runScan that made the call went on
NoLoad ==
  [calls |-> 0, fetches |-> 0, outcome |-> "none", value |-> NoPolicy,
   scan |-> "none"]

PolicyIdle ==
  /\ policyScript = "none"
  /\ policyFile = [kind |-> "absent", json |-> NoPolicy]
  /\ policy = NoPolicy
  /\ loaded = NoLoad

\* --------------------------------------------------------- message values
\* handleScan of a listener not called for the request
NoRun == [pc |-> "idle", outcome |-> "none"]

\* no request in the page; axeRuns counts the window.axe.run calls made
\* for the request
NoMessage == [type |-> "none", axeRuns |-> 0]

\* the sender's callback has not been called
NoResponse == [set |-> FALSE, from |-> 0, success |-> FALSE]

MessageIdle ==
  /\ listeners = 0
  /\ runnerMessage = NoMessage
  /\ scanRuns = [l \in 1..MaxInjections |-> NoRun]
  /\ responses = <<>>
  /\ delivered = NoResponse

RestIdle == ReporterIdle /\ PolicyIdle /\ MessageIdle

\* ------------------------------------------------------------------- init
Init ==
  /\ resultsByTab = [k \in {} |-> NoReport]
  /\ tabs \in [TabIds -> [url : Urls, open : {TRUE}, entryPoint : {FALSE}]]
  /\ active \in TabIds \cup {0}
  /\ pageResult = [t \in TabIds |-> FALSE]
  /\ pageError = [t \in TabIds |-> FALSE]
  /\ popupOpen = FALSE
  /\ isScanning = FALSE
  /\ ui = "ready"
  /\ pc = [p \in Procs |-> "idle"]
  /\ kind = [p \in Procs |-> "none"]
  /\ tab = [p \in Procs |-> NoTab]
  /\ i = [p \in Procs |-> 0]
  /\ result = [p \in Procs |-> NoReport]
  /\ rpc = "idle"
  /\ rtab = NoTab
  /\ restored = NoReport
  /\ lastCall = "none"
  /\ reply = [type |-> "none", results |-> NoReport]
  /\ event = [type |-> "none", tabId |-> 0, deleted |-> 0]
  /\ raw = EmptyRaw
  /\ runner = "part_002"
  /\ request = NoConfig
  /\ path = "none"
  /\ report = <<>>
  /\ normalized = NoNormalized
  /\ engineTags = DefaultEngineTags
  /\ axeCall = NoCall
  /\ warned = <<>>
  /\ now = 0
  /\ wait = NoWait
  /\ RestIdle


\* ------------------------------------------------------------- environment
\* a handler slot with nothing pending
idleProcs ==
  /\ pc' = [p \in Procs |-> "idle"]
  /\ kind' = [p \in Procs |-> "none"]
  /\ tab' = [p \in Procs |-> NoTab]
  /\ i' = [p \in Procs |-> 0]
  /\ result' = [p \in Procs |-> NoReport]

\* the popup document goes away: its globals and pending handlers with it
closePopup ==
  /\ popupOpen' = FALSE
  /\ isScanning' = FALSE
  /\ ui' = "ready"
  /\ idleProcs
  /\ rpc' = "idle"
  /\ rtab' = NoTab
  /\ restored' = NoReport
  /\ lastCall' = "none"

\* the document of a tab is replaced: the page's globals are gone, and the
\* reports read from the old document are now of a previous document
newDocument(t) ==
  /\ pageResult' = [pageResult EXCEPT ![t] = FALSE]
  /\ pageError' = [pageError EXCEPT ![t] = FALSE]

staleResults(t) ==
  [p \in Procs |->
     IF tab[p].id = t /\ result[p] # NoReport
     THEN [result[p] EXCEPT !.doc = "previous"]
     ELSE result[p]]

\* chrome.tabs.onUpdated listener
onUpdated(tabId, status) ==
  IF status = "loading"
  THEN resultsByTab' = invalidate(tabId)
  ELSE UNCHANGED resultsByTab

\* chrome.tabs.onRemoved listener
onRemoved(tabId) == resultsByTab' = invalidate(tabId)

\* the user opens the popup: DOMContentLoaded runs restoreIfExists up to its
\* first await
PopupOpen ==
  /\ ~popupOpen
  /\ popupOpen' = TRUE
  /\ ui' = "ready"
  /\ rpc' = "query"
  /\ UNCHANGED <<resultsByTab, browserVars, isScanning, procVars, rtab,
                 restored, lastCall, workerVars>>
  /\ UNCHANGED runnerVars

\* the popup loses focus and is destroyed (a sent message is still handled)
PopupClose ==
  /\ popupOpen
  /\ \A p \in Procs : pc[p] # "save"
  /\ closePopup
  /\ UNCHANGED <<resultsByTab, browserVars, workerVars>>
  /\ UNCHANGED runnerVars

\* the user activates another tab (the popup is closed by then); 0 stands
\* for a tab without an id, such as a devtools window
SwitchTab(t) ==
  /\ ~popupOpen
  /\ t \in TabIds => tabs[t].open
  /\ t # active
  /\ active' = t
  /\ UNCHANGED <<resultsByTab, tabs, pageResult, pageError, popupOpen,
                 isScanning, ui, procVars, restoreVars, lastCall, workerVars>>
  /\ UNCHANGED runnerVars

\* while the popup is showing, the window's active tab becomes one without
\* an id: the next chrome.tabs.query destructures to a tab the handlers'
\* `!tab?.id` tests reject
ActiveTabLost ==
  /\ popupOpen
  /\ active # 0
  /\ active' = 0
  /\ UNCHANGED <<resultsByTab, tabs, pageResult, pageError, popupOpen,
                 isScanning, ui, procVars, restoreVars, lastCall, workerVars>>
  /\ UNCHANGED runnerVars

\* tab t starts loading a document at url u (also a reload, u unchanged)
Navigate(t, u) ==
  /\ tabs[t].open
  /\ tabs' = [tabs EXCEPT ![t].url = u, ![t].entryPoint = FALSE]
  /\ newDocument(t)
  /\ onUpdated(t, "loading")
  /\ result' = staleResults(t)
  /\ UNCHANGED <<active, popupOpen, isScanning, ui, pc, kind, tab, i,
                 restoreVars, lastCall, workerVars>>
  /\ UNCHANGED runnerVars

\* tab t is closed; closing the active tab takes the popup with it
CloseTab(t) ==
  /\ tabs[t].open
  /\ tabs' = [tabs EXCEPT ![t].open = FALSE, ![t].entryPoint = FALSE]
  /\ newDocument(t)
  /\ onRemoved(t)
  /\ UNCHANGED workerVars
  /\ IF t = active
     THEN /\ active' = 0
          /\ \A p \in Procs : pc[p] # "save"
          /\ closePopup
     ELSE UNCHANGED <<active, popupOpen, isScanning, ui, procVars,
                      restoreVars, lastCall>>
  /\ UNCHANGED runnerVars

\* ------------------------------------------------- popup: restoreIfExists
\* restoreIfExists, from the tab query to the GET_A11Y_RESULTS message
restoreQuery ==
  /\ rpc = "query"
  /\ LET t == queryActiveTab IN
       IF t.id = 0
       THEN /\ ui' = "noTab"
            /\ rpc' = "idle"
            /\ UNCHANGED rtab
       ELSE /\ rtab' = t
            /\ rpc' = "get"
            /\ UNCHANGED ui
  /\ UNCHANGED <<resultsByTab, browserVars, popupOpen, isScanning, procVars,
                 restored, lastCall, workerVars>>
  /\ UNCHANGED runnerVars

\* restoreIfExists, from the response of the service worker to the end
restoreIfExists ==
  /\ rpc = "get"
  /\ LET results == GET_A11Y_RESULTS(tabKey(rtab)) IN
       IF results # NoReport
       THEN /\ ui' = "restored"
            /\ restored' = results
       ELSE UNCHANGED <<ui, restored>>
  /\ rpc' = "idle"
  /\ rtab' = NoTab
  /\ UNCHANGED <<resultsByTab, browserVars, popupOpen, isScanning, procVars,
                 lastCall, workerVars>>
  /\ UNCHANGED runnerVars


\* --------------------------------- popup: scans of service-worker.js
setProc(p, c, k, t, n, r) ==
  /\ pc' = [pc EXCEPT ![p] = c]
  /\ kind' = [kind EXCEPT ![p] = k]
  /\ tab' = [tab EXCEPT ![p] = t]
  /\ i' = [i EXCEPT ![p] = n]
  /\ result' = [result EXCEPT ![p] = r]

endProc(p) == setProc(p, "idle", "none", NoTab, 0, NoReport)

goto(p, c) ==
  /\ pc' = [pc EXCEPT ![p] = c]
  /\ UNCHANGED <<kind, tab, i, result>>

\* mutant: the catch block shows the error, and no finally clears the flag
handleScanError_keepsFlag(p, message) ==
  /\ ui' = message
  /\ UNCHANGED isScanning
  /\ endProc(p)

\* catch (error) { handleScanError(error) } finally { isScanning = false }
handleScanError(p, message) ==
  /\ ui' = message
  /\ isScanning' = FALSE
  /\ endProc(p)

\* mutant: resetUI runs before the guard
runScan_resetBeforeGuard ==
  /\ popupOpen
  /\ IF isScanning
     THEN /\ lastCall' = "returned"
          /\ ui' = "ready"
          /\ UNCHANGED <<isScanning, procVars>>
     ELSE /\ HasFreeProc
          /\ isScanning' = TRUE
          /\ ui' = "scanning"
          /\ setProc(FreeProc, "query", "runScan", NoTab, 0, NoReport)
          /\ lastCall' = "started"
  /\ UNCHANGED <<resultsByTab, browserVars, popupOpen, restoreVars, workerVars>>
  /\ UNCHANGED runnerVars

\* runScan up to its first await: the guard, the flag, resetUI, the status
runScan ==
  /\ popupOpen
  /\ IF isScanning
     THEN /\ lastCall' = "returned"
          /\ UNCHANGED <<isScanning, ui, procVars>>
     ELSE /\ HasFreeProc
          /\ isScanning' = TRUE
          /\ ui' = "scanning"
          /\ setProc(FreeProc, "query", "runScan", NoTab, 0, NoReport)
          /\ lastCall' = "started"
  /\ UNCHANGED <<resultsByTab, browserVars, popupOpen, restoreVars, workerVars>>
  /\ UNCHANGED runnerVars

\* runNoIframesScan up to its first await (the button exists only in the
\* iframe-timeout help of handleScanError)
runNoIframesScan ==
  /\ popupOpen
  /\ ui = "errFrameTimeout"
  /\ IF isScanning
     THEN /\ lastCall' = "returned"
          /\ UNCHANGED <<isScanning, ui, procVars>>
     ELSE /\ HasFreeProc
          /\ isScanning' = TRUE
          /\ ui' = "scanningNoIframes"
          /\ setProc(FreeProc, "query", "runNoIframesScan", NoTab, 0, NoReport)
          /\ lastCall' = "started"
  /\ UNCHANGED <<resultsByTab, browserVars, popupOpen, restoreVars, workerVars>>
  /\ UNCHANGED runnerVars

\* runBasicScan up to its first await
runBasicScan ==
  /\ popupOpen
  /\ ui = "errFrameTimeout"
  /\ IF isScanning
     THEN /\ lastCall' = "returned"
          /\ UNCHANGED <<isScanning, ui, procVars>>
     ELSE /\ HasFreeProc
          /\ isScanning' = TRUE
          /\ ui' = "scanningBasic"
          /\ setProc(FreeProc, "query", "runBasicScan", NoTab, 0, NoReport)
          /\ lastCall' = "started"
  /\ UNCHANGED <<resultsByTab, browserVars, popupOpen, restoreVars, workerVars>>
  /\ UNCHANGED runnerVars

\* refreshAndScan: reloads the active tab and asks the user to scan again
refreshAndScan ==
  /\ popupOpen
  /\ ui = "errFrameTimeout"
  /\ LET t == queryActiveTab IN
       IF t.id = 0
       THEN UNCHANGED <<resultsByTab, tabs, pageResult, pageError, ui, result>>
       ELSE /\ newDocument(t.id)
            /\ tabs' = [tabs EXCEPT ![t.id].entryPoint = FALSE]
            /\ onUpdated(t.id, "loading")
            /\ result' = staleResults(t.id)
            /\ ui' = "refreshing"
  /\ UNCHANGED <<active, popupOpen, isScanning, pc, kind, tab, i,
                 restoreVars, lastCall, workerVars>>
  /\ UNCHANGED runnerVars

\* const [tab] = await chrome.tabs.query(...); if (!tab?.id) ...
queryTab(p) ==
  /\ pc[p] = "query"
  /\ LET t == queryActiveTab IN
       IF t.id = 0
       THEN IF kind[p] = "runScan"
            THEN handleScanError(p, "errNoTab")
            ELSE \* return; finally { isScanning = false }
                 /\ isScanning' = FALSE
                 /\ endProc(p)
                 /\ UNCHANGED ui
       ELSE /\ setProc(p, CASE kind[p] = "runScan" -> "check"
                            [] kind[p] = "runNoIframesScan" -> "reload"
                            [] OTHER -> "inject",
                       kind[p], t, 0, NoReport)
            /\ UNCHANGED <<isScanning, ui>>
  /\ UNCHANGED <<resultsByTab, browserVars, popupOpen, restoreVars, lastCall, workerVars>>
  /\ UNCHANGED runnerVars

\* runScan: the document.readyState probe; its failure is rethrown as
\* 'Cannot access page: ...'
checkPage(p) ==
  /\ pc[p] = "check"
  /\ \/ /\ tabs[tab[p].id].open
        /\ goto(p, "inject")
        /\ UNCHANGED <<isScanning, ui>>
     \/ handleScanError(p, "errAccess")
  /\ UNCHANGED <<resultsByTab, browserVars, popupOpen, restoreVars, lastCall, workerVars>>
  /\ UNCHANGED runnerVars

\* runNoIframesScan: await chrome.tabs.reload(tab.id), which makes the tab
\* load a new document of its URL
reloadTab(p) ==
  /\ pc[p] = "reload"
  /\ IF tabs[tab[p].id].open
     THEN /\ newDocument(tab[p].id)
          /\ tabs' = [tabs EXCEPT ![tab[p].id].entryPoint = FALSE]
          /\ onUpdated(tab[p].id, "loading")
          /\ pc' = [pc EXCEPT ![p] = "sleep"]
          /\ result' = staleResults(tab[p].id)
          /\ UNCHANGED <<isScanning, ui, kind, tab, i>>
     ELSE /\ handleScanError(p, "errOther")
          /\ UNCHANGED <<resultsByTab, tabs, pageResult, pageError>>
  /\ UNCHANGED <<active, popupOpen, restoreVars, lastCall, workerVars>>
  /\ UNCHANGED runnerVars

\* runNoIframesScan: await new Promise(resolve => setTimeout(resolve, 2000))
sleepAfterReload(p) ==
  /\ pc[p] = "sleep"
  /\ goto(p, "inject")
  /\ UNCHANGED <<resultsByTab, browserVars, popupOpen, isScanning, ui,
                 restoreVars, lastCall, workerVars>>
  /\ UNCHANGED runnerVars

\* executeScript({ files: ['vendor/axe.min.js', 'content/axe-runner.js'] }):
\* with window.axe in the page the runner defines window.runA11yScan;
\* without it the runner logs and returns, and the injection still
\* resolves; or the injection is rejected
injectRunner(p) ==
  /\ pc[p] = "inject"
  /\ \/ /\ tabs[tab[p].id].open
        /\ tabs' = [tabs EXCEPT ![tab[p].id].entryPoint = TRUE]
        /\ goto(p, "invoke")
        /\ UNCHANGED <<isScanning, ui>>
     \/ /\ tabs[tab[p].id].open
        /\ ~tabs[tab[p].id].entryPoint
        /\ goto(p, "invoke")
        /\ UNCHANGED <<tabs, isScanning, ui>>
     \/ /\ handleScanError(p, "errOther")
        /\ UNCHANGED tabs
  /\ UNCHANGED <<resultsByTab, active, pageResult, pageError, popupOpen,
                 restoreVars, lastCall, workerVars>>
  /\ UNCHANGED runnerVars

\* executeScript({ func: config => window.runA11yScan(config) }): resolves
\* when the page's run has stored its result, rejects when the run threw
\* (the page's error signal is set) or the document went away
invokeEngine(p) ==
  /\ pc[p] = "invoke"
  /\ \/ /\ tabs[tab[p].id].open
        /\ tabs[tab[p].id].entryPoint
        /\ pageResult' = [pageResult EXCEPT ![tab[p].id] = TRUE]
        /\ setProc(p, "poll", kind[p], tab[p], 0, NoReport)
        /\ UNCHANGED <<pageError, isScanning, ui>>
     \/ /\ tabs[tab[p].id].open
        /\ tabs[tab[p].id].entryPoint
        /\ pageError' = [pageError EXCEPT ![tab[p].id] = TRUE]
        /\ \E m \in {"errFrameTimeout", "errOther"} : handleScanError(p, m)
        /\ UNCHANGED pageResult
     \/ \* window.runA11yScan is not a function: the TypeError is thrown in
        \* the page; runScan's wrapper stores its message before rethrowing
        /\ tabs[tab[p].id].open
        /\ ~tabs[tab[p].id].entryPoint
        /\ pageError' = [pageError EXCEPT
                           ![tab[p].id] = IF kind[p] = "runScan" THEN TRUE ELSE @]
        /\ handleScanError(p, "errOther")
        /\ UNCHANGED pageResult
     \/ /\ handleScanError(p, "errOther")
        /\ UNCHANGED <<pageResult, pageError>>
  /\ UNCHANGED <<resultsByTab, tabs, active, popupOpen, restoreVars, lastCall, workerVars>>
  /\ UNCHANGED runnerVars

\* what the scan function adds to the polled result before it saves it
withMetadata(p) ==
  [url |-> tab[p].url,
   note |-> CASE kind[p] = "runNoIframesScan" -> "noIframes"
              [] kind[p] = "runBasicScan" -> "basic"
              [] OTHER -> "full",
   doc |-> "current"]

\* the message of the error a scan function throws when its loop found
\* no result
noResultError(k) ==
  CASE k = "runScan" -> "errTimeout"
    [] k = "runNoIframesScan" -> "errStillFailed"
    [] OTHER -> "errBasicFailed"

\* mutant: the last empty poll saves what it has
pollResult_savesOnTimeout(p) ==
  /\ pc[p] = "poll"
  /\ i[p] < attemptsOf(kind[p])
  /\ IF ~tabs[tab[p].id].open
     THEN handleScanError(p, "errOther")
     ELSE IF kind[p] = "runScan" /\ pageError[tab[p].id]
     THEN handleScanError(p, "errOther")
     ELSE IF pageResult[tab[p].id] \/ i[p] + 1 >= attemptsOf(kind[p])
     THEN /\ setProc(p, "save", kind[p], tab[p], i[p], withMetadata(p))
          /\ UNCHANGED <<isScanning, ui>>
     ELSE /\ i' = [i EXCEPT ![p] = i[p] + 1]
          /\ UNCHANGED <<pc, kind, tab, result, isScanning, ui>>
  /\ UNCHANGED <<resultsByTab, browserVars, popupOpen, restoreVars, lastCall, workerVars>>
  /\ UNCHANGED runnerVars

\* one iteration of the polling loop: read both signals of the page, then
\* throw, break, or wait 100 ms and count
pollResult(p) ==
  /\ pc[p] = "poll"
  /\ i[p] < attemptsOf(kind[p])
  /\ IF ~tabs[tab[p].id].open
     THEN handleScanError(p, "errOther")
     ELSE IF kind[p] = "runScan" /\ pageError[tab[p].id]
     THEN handleScanError(p, "errOther")
     ELSE IF pageResult[tab[p].id]
     THEN \* result.url = tab.url; ...; sendMessage(SAVE_A11Y_RESULTS)
          /\ setProc(p, "save", kind[p], tab[p], i[p], withMetadata(p))
          /\ UNCHANGED <<isScanning, ui>>
     ELSE IF i[p] + 1 < attemptsOf(kind[p])
     THEN /\ i' = [i EXCEPT ![p] = i[p] + 1]
          /\ UNCHANGED <<pc, kind, tab, result, isScanning, ui>>
     ELSE handleScanError(p, noResultError(kind[p]))
  /\ UNCHANGED <<resultsByTab, browserVars, popupOpen, restoreVars, lastCall, workerVars>>
  /\ UNCHANGED runnerVars

\* the service worker handles SAVE_A11Y_RESULTS { key: tabKey(tab), results }
saveResults(p) ==
  /\ pc[p] = "save"
  /\ resultsByTab' = SAVE_A11Y_RESULTS(tabKey(tab[p]), result[p])
  /\ goto(p, "render")
  /\ UNCHANGED <<browserVars, popupOpen, isScanning, ui, restoreVars, lastCall, workerVars>>
  /\ UNCHANGED runnerVars

\* renderResults(result); finally { isScanning = false }
renderResults(p) ==
  /\ pc[p] = "render"
  /\ ui' = "results"
  /\ isScanning' = FALSE
  /\ endProc(p)
  /\ UNCHANGED <<resultsByTab, browserVars, popupOpen, restoreVars, lastCall, workerVars>>
  /\ UNCHANGED runnerVars

\* ------------------------------------------------------------ specification
Next ==
  \/ PopupOpen
  \/ PopupClose
  \/ \E t \in TabIds \cup {0} : SwitchTab(t)
  \/ ActiveTabLost
  \/ \E t \in TabIds, u \in Urls : Navigate(t, u)
  \/ \E t \in TabIds : CloseTab(t)
  \/ restoreQuery
  \/ restoreIfExists
  \/ runScan
  \/ runNoIframesScan
  \/ runBasicScan
  \/ refreshAndScan
  \/ \E p \in Procs : queryTab(p)
  \/ \E p \in Procs : checkPage(p)
  \/ \E p \in Procs : reloadTab(p)
  \/ \E p \in Procs : sleepAfterReload(p)
  \/ \E p \in Procs : injectRunner(p)
  \/ \E p \in Procs : invokeEngine(p)
  \/ \E p \in Procs : pollResult(p)
  \/ \E p \in Procs : saveResults(p)
  \/ \E p \in Procs : renderResults(p)

Spec == Init /\ [][Next]_vars


\* ------------------------------------ the service worker on its own
\* the keys popups of any window can send, and the reports they can save
StoreKeys == {tabKey([id |-> t, url |-> u]) : t \in StoreTabs, u \in Urls}

StoreUrlOf(key) == CHOOSE u \in Urls : \E t \in StoreTabs : key = tabKey([id |-> t, url |-> u])

StoreReports(key) ==
  {[url |-> StoreUrlOf(key), note |-> n, doc |-> "current"] : n \in {"full", "basic"}}

\* chrome.runtime.onMessage listener of the service worker
onMessage(msg) ==
  IF msg.type = "GET_A11Y_RESULTS"
  THEN /\ reply' = [type |-> "results", results |-> GET_A11Y_RESULTS(msg.key)]
       /\ UNCHANGED resultsByTab
  ELSE IF msg.type = "SAVE_A11Y_RESULTS"
  THEN /\ resultsByTab' = SAVE_A11Y_RESULTS(msg.key, msg.results)
       /\ reply' = [type |-> "ok", results |-> NoReport]
  ELSE UNCHANGED <<resultsByTab, reply>>

\* how many entries the listener that just ran deleted
deletedKeys == Cardinality(DOMAIN resultsByTab) - Cardinality(DOMAIN resultsByTab')

\* a popup sends a message
storeMessage(msg) ==
  /\ onMessage(msg)
  /\ event' = [type |-> "message", tabId |-> 0, deleted |-> 0]
  /\ UNCHANGED <<browserVars, popupVars>>
  /\ UNCHANGED runnerVars

\* the browser reports that a tab changed
storeUpdated(t, status) ==
  /\ onUpdated(t, status)
  /\ event' = [type |-> status, tabId |-> t, deleted |-> deletedKeys]
  /\ UNCHANGED <<browserVars, popupVars, reply>>
  /\ UNCHANGED runnerVars

\* the browser reports that a tab was closed
storeRemoved(t) ==
  /\ onRemoved(t)
  /\ event' = [type |-> "removed", tabId |-> t, deleted |-> deletedKeys]
  /\ UNCHANGED <<browserVars, popupVars, reply>>
  /\ UNCHANGED runnerVars

StoreNext ==
  \/ \E key \in StoreKeys :
       storeMessage([type |-> "GET_A11Y_RESULTS", key |-> key, results |-> NoReport])
  \/ \E key \in StoreKeys : \E r \in StoreReports(key) :
       storeMessage([type |-> "SAVE_A11Y_RESULTS", key |-> key, results |-> r])
  \/ \E key \in StoreKeys :
       storeMessage([type |-> "PING", key |-> key, results |-> NoReport])
  \/ \E t \in StoreTabs, status \in {"loading", "complete"} : storeUpdated(t, status)
  \/ \E t \in StoreTabs : storeRemoved(t)

SpecStore == Init /\ [][StoreNext]_vars


\* ------------------------------------ popup: runScan of unnamed/part_004
\* catch (e) { statusEl.textContent = 'Scan failed'; ... }
popupCatch(p, message) ==
  /\ ui' = message
  /\ endProc(p)

\* the popup document is created; this build has no restoreIfExists
popupOpened ==
  /\ ~popupOpen
  /\ popupOpen' = TRUE
  /\ ui' = "ready"
  /\ UNCHANGED <<resultsByTab, browserVars, isScanning, procVars, restoreVars,
                 lastCall, workerVars>>
  /\ UNCHANGED runnerVars

\* runScan up to its first await: resetUI and the status, no guard
popupRunScan ==
  /\ popupOpen
  /\ HasFreeProc
  /\ ui' = "scanning"
  /\ setProc(FreeProc, "policy", "popupRunScan", NoTab, 0, NoReport)
  /\ lastCall' = "started"
  /\ UNCHANGED <<resultsByTab, browserVars, popupOpen, isScanning, restoreVars,
                 workerVars>>
  /\ UNCHANGED runnerVars

\* const policy = await loadPolicy()
popupLoadPolicy(p) ==
  /\ pc[p] = "policy"
  /\ \/ /\ goto(p, "query")
        /\ UNCHANGED ui
     \/ popupCatch(p, "errOther")
  /\ UNCHANGED <<resultsByTab, browserVars, popupOpen, isScanning, restoreVars,
                 lastCall, workerVars>>
  /\ UNCHANGED runnerVars

\* const [tab] = await chrome.tabs.query(...); currentTabId = tab.id
popupQueryTab(p) ==
  /\ pc[p] = "query"
  /\ LET t == queryActiveTab IN
       IF t.id = 0
       THEN popupCatch(p, "errOther")
       ELSE /\ setProc(p, "inject", kind[p], t, 0, NoReport)
            /\ UNCHANGED ui
  /\ UNCHANGED <<resultsByTab, browserVars, popupOpen, isScanning, restoreVars,
                 lastCall, workerVars>>
  /\ UNCHANGED runnerVars

\* executeScript({ files: [...] }) in all frames
popupInjectRunner(p) ==
  /\ pc[p] = "inject"
  /\ \/ /\ tabs[tab[p].id].open
        /\ tabs' = [tabs EXCEPT ![tab[p].id].entryPoint = TRUE]
        /\ goto(p, "invoke")
        /\ UNCHANGED ui
     \/ /\ popupCatch(p, "errOther")
        /\ UNCHANGED tabs
  /\ UNCHANGED <<resultsByTab, active, pageResult, pageError, popupOpen,
                 isScanning, restoreVars, lastCall, workerVars>>
  /\ UNCHANGED runnerVars

\* Phase 1: trigger scan
popupInvokeEngine(p) ==
  /\ pc[p] = "invoke"
  /\ \/ /\ tabs[tab[p].id].open
        /\ pageResult' = [pageResult EXCEPT ![tab[p].id] = TRUE]
        /\ setProc(p, "poll", kind[p], tab[p], 0, NoReport)
        /\ UNCHANGED <<pageError, ui>>
     \/ /\ tabs[tab[p].id].open
        /\ pageError' = [pageError EXCEPT ![tab[p].id] = TRUE]
        /\ popupCatch(p, "errOther")
        /\ UNCHANGED pageResult
     \/ /\ popupCatch(p, "errOther")
        /\ UNCHANGED <<pageResult, pageError>>
  /\ UNCHANGED <<resultsByTab, tabs, active, popupOpen, isScanning, restoreVars,
                 lastCall, workerVars>>
  /\ UNCHANGED runnerVars

\* Phase 2: poll for result; then lastResults = result; renderResults(result)
popupPollResult(p) ==
  /\ pc[p] = "poll"
  /\ i[p] < PopupAttempts
  /\ IF ~tabs[tab[p].id].open
     THEN popupCatch(p, "errOther")
     ELSE IF pageError[tab[p].id]
     THEN popupCatch(p, "errOther")
     ELSE IF pageResult[tab[p].id]
     THEN /\ ui' = "results"
          /\ endProc(p)
     ELSE IF i[p] + 1 < PopupAttempts
     THEN /\ i' = [i EXCEPT ![p] = i[p] + 1]
          /\ UNCHANGED <<pc, kind, tab, result, ui>>
     ELSE popupCatch(p, "errTimeout")
  /\ UNCHANGED <<resultsByTab, browserVars, popupOpen, isScanning, restoreVars,
                 lastCall, workerVars>>
  /\ UNCHANGED runnerVars

PopupNext ==
  \/ popupOpened
  \/ PopupClose
  \/ \E t \in TabIds \cup {0} : SwitchTab(t)
  \/ \E t \in TabIds, u \in Urls : Navigate(t, u)
  \/ \E t \in TabIds : CloseTab(t)
  \/ popupRunScan
  \/ \E p \in Procs : popupLoadPolicy(p)
  \/ \E p \in Procs : popupQueryTab(p)
  \/ \E p \in Procs : popupInjectRunner(p)
  \/ \E p \in Procs : popupInvokeEngine(p)
  \/ \E p \in Procs : popupPollResult(p)

SpecPopup == Init /\ [][PopupNext]_vars


\* ================================================= the runner (part_002/003)
\* Array.prototype.includes
includes(arr, x) == \E k \in 1..Len(arr) : arr[k] = x

\* String.prototype.toLowerCase on the impact strings
toLowerCase(s) ==
  CASE s = "Critical" -> "critical"
    [] s = "Serious" -> "serious"
    [] s = "Moderate" -> "moderate"
    [] s = "Minor" -> "minor"
    [] OTHER -> s

\* violation.impact?.toLowerCase(): no impact gives undefined (falsy)
severityOf(violation) ==
  IF violation.impact = null THEN null ELSE toLowerCase(violation.impact)

zeroCounts == [k \in ImpactLevels |-> 0]

\* the forEach over the violations that tallies them by severity
RECURSIVE tallySeverities(_, _)
tallySeverities(violations, severityCounts) ==
  IF violations = <<>> THEN severityCounts
  ELSE LET severity == severityOf(Head(violations))
           counted ==
             IF severity \in DOMAIN severityCounts
             THEN [severityCounts EXCEPT ![severity] = @ + 1]
             ELSE IF severity # null
             THEN [k \in DOMAIN severityCounts \cup {severity} |->
                     IF k \in DOMAIN severityCounts THEN severityCounts[k] ELSE 1]
             ELSE severityCounts
       IN tallySeverities(Tail(violations), counted)

\* Math.round((testsPassed / totalTestsRun) * 100) || 0: 0 / 0 is NaN, and
\* NaN || 0 is 0; Math.round rounds a half up
automatedCoverage(testsPassed, totalTestsRun) ==
  IF totalTestsRun = 0 THEN 0
  ELSE (200 * testsPassed + totalTestsRun) \div (2 * totalTestsRun)

\* the fields normalizeResults copies from an outcome of the engine
normalizeOutcome(o) == [id |-> o.id, impact |-> o.impact]

RECURSIVE mapOutcomes(_)
mapOutcomes(outcomes) ==
  IF outcomes = <<>> THEN <<>>
  ELSE <<normalizeOutcome(Head(outcomes))>> \o mapOutcomes(Tail(outcomes))

\* getAllAvailableTags(): the tags of window.axe.getRules(), each once
getAllAvailableTags == engineTags

\* part_003 reports a fixed coverage of 100, part_002 computes it and puts
\* getAllAvailableTags() into the report's context; part_001 returns the
\* violations alone
normalizeResults(script, r) ==
  IF script = "part_001"
  THEN [context |-> [availableTags |-> <<>>],
        violations |-> mapOutcomes(r.violations)]
  ELSE
  LET totalTestsRun == Len(r.violations) + Len(r.passes) + Len(r.incomplete)
                         + Len(r.inapplicable)
      testsPassed == Len(r.passes)
      issuesFound == Len(r.violations)
      manualReviews == Len(r.incomplete)
  IN [context |->
        [availableTags |->
           IF script = "part_002" THEN getAllAvailableTags ELSE <<>>],
      statistics |->
        [totalTestsRun |-> totalTestsRun,
         testsPassed |-> testsPassed,
         issuesFound |-> issuesFound,
         manualReviews |-> manualReviews,
         severityCounts |-> tallySeverities(r.violations, zeroCounts),
         automatedCoverage |->
           IF script = "part_003" THEN 100
           ELSE automatedCoverage(testsPassed, totalTestsRun)],
      violations |-> mapOutcomes(r.violations),
      passes |-> mapOutcomes(r.passes),
      incomplete |-> mapOutcomes(r.incomplete),
      inapplicable |-> mapOutcomes(r.inapplicable)]

\* filterByImpact that keeps the severity tally of the unfiltered report
filterByImpact_keepsSeverityCounts(results, allowedImpacts) ==
  IF ~allowedImpacts.isArray \/ Len(allowedImpacts.values) = 0 THEN results
  ELSE LET allowed(o) == includes(allowedImpacts.values, o.impact)
           violations == SelectSeq(results.violations, allowed)
           passes == SelectSeq(results.passes, allowed)
           incomplete == SelectSeq(results.incomplete, allowed)
       IN [results EXCEPT
             !.violations = violations,
             !.passes = passes,
             !.incomplete = incomplete,
             !.statistics = [@ EXCEPT
                !.issuesFound = Len(violations),
                !.testsPassed = Len(passes),
                !.manualReviews = Len(incomplete)]]

\* totalTestsRun and automatedCoverage are not among the statistics the
\* function recalculates
filterByImpact(results, allowedImpacts) ==
  IF ~allowedImpacts.isArray \/ Len(allowedImpacts.values) = 0 THEN results
  ELSE LET allowed(o) == includes(allowedImpacts.values, o.impact)
           violations == SelectSeq(results.violations, allowed)
           passes == SelectSeq(results.passes, allowed)
           incomplete == SelectSeq(results.incomplete, allowed)
       IN [results EXCEPT
             !.violations = violations,
             !.passes = passes,
             !.incomplete = incomplete,
             !.statistics = [@ EXCEPT
                !.issuesFound = Len(violations),
                !.testsPassed = Len(passes),
                !.manualReviews = Len(incomplete),
                !.severityCounts = tallySeverities(violations, zeroCounts)]]

\* filterByImpact of part_001: the violations only, no statistics
filterViolationsByImpact(results, allowedImpacts) ==
  IF ~allowedImpacts.isArray \/ Len(allowedImpacts.values) = 0 THEN results
  ELSE LET allowed(o) == includes(allowedImpacts.values, o.impact)
       IN [results EXCEPT !.violations = SelectSeq(results.violations, allowed)]

AllResultTypes == <<"violations", "passes", "incomplete", "inapplicable">>

\* the defaultTags literal of part_003 (abridged to five of its entries)
defaultTags003 == <<"wcag2a", "wcag2aa", "ada", "best-practice", "experimental">>

\* the tags a script runs when none is requested: part_002 takes the
\* engine's tags without the experimental ones, part_003 its literal,
\* part_001 has none and leaves the run unrestricted
defaultTags(script) ==
  LET notExperimental(tag) == tag # "experimental"
  IN CASE script = "part_002" -> SelectSeq(getAllAvailableTags, notExperimental)
       [] script = "part_003" -> defaultTags003
       [] OTHER -> <<>>

\* the options the runner hands to window.axe.run; part_001 restricts the
\* run only when tags are requested and asks for violations alone
buildAxeConfig(script, config) ==
  LET allTags == getAllAvailableTags
      recognized(tag) == includes(allTags, tag)
  IN CASE script = "part_002" ->
            [runOnly |-> TRUE,
             values |-> IF Len(config.tags) > 0
                        THEN SelectSeq(config.tags, recognized)
                        ELSE defaultTags(script),
             resultTypes |-> AllResultTypes]
       [] script = "part_003" ->
            [runOnly |-> TRUE,
             values |-> IF Len(config.tags) > 0 THEN config.tags
                        ELSE defaultTags(script),
             resultTypes |-> AllResultTypes]
       [] OTHER ->
            [runOnly |-> Len(config.tags) > 0,
             values |-> config.tags,
             resultTypes |-> <<"violations">>]

\* runAxe of part_002: the requested tags that are not in the engine call,
\* written with console.warn; the other scripts write no diagnostic
invalidTags(script, config) ==
  IF script = "part_002"
  THEN LET validTags == buildAxeConfig(script, config).values
           invalid(tag) == ~includes(validTags, tag)
       IN SelectSeq(config.tags, invalid)
  ELSE <<>>

appVars == <<resultsByTab, browserVars, popupVars, workerVars, restVars>>

\* the objects filterByImpact works on, by address: the report object at 1
\* holds the address of its statistics object
heapOf(results) == <<[results EXCEPT !.statistics = 2], results.statistics>>

\* the report at an address, with its statistics object
deref(heap, a) == [heap[a] EXCEPT !.statistics = heap[heap[a].statistics]]

\* filterByImpact on the heap: the spread copies the fields of results,
\* the statistics reference among them, into a new object at 3, and the
\* recalculation assigns to the object filtered.statistics refers to
filterByImpactOn(heap, allowedImpacts) ==
  IF ~allowedImpacts.isArray \/ Len(allowedImpacts.values) = 0
  THEN [heap |-> heap, returned |-> 1]
  ELSE LET allowed(o) == includes(allowedImpacts.values, o.impact)
           filtered == [heap[1] EXCEPT
                          !.violations = SelectSeq(@, allowed),
                          !.passes = SelectSeq(@, allowed),
                          !.incomplete = SelectSeq(@, allowed)]
           statistics == filtered.statistics
       IN [heap |-> [Append(heap, filtered) EXCEPT
                       ![statistics] = [@ EXCEPT
                          !.issuesFound = Len(filtered.violations),
                          !.testsPassed = Len(filtered.passes),
                          !.manualReviews = Len(filtered.incomplete),
                          !.severityCounts =
                             tallySeverities(filtered.violations, zeroCounts)]],
           returned |-> 3]

\* const normalized of handleScan before and after filterByImpact ran on
\* it; filterByImpact of part_001 only builds a new object
normalizedAround(script, results, config) ==
  [before |-> results,
   after |-> IF script = "part_001" THEN results
             ELSE deref(filterByImpactOn(heapOf(results), config).heap, 1)]

\* the RUN_A11Y_SCAN message: run the engine, normalize, then filter by
\* config.impacts
handleScan(config) ==
  /\ request' = config
  /\ path' = "handleScan"
  /\ axeCall' = buildAxeConfig(runner, config)
  /\ warned' = invalidTags(runner, config)
  /\ report' = IF runner = "part_001"
               THEN filterViolationsByImpact(normalizeResults(runner, raw), config)
               ELSE filterByImpact(normalizeResults(runner, raw), config)
  /\ normalized' = normalizedAround(runner, normalizeResults(runner, raw), config)
  /\ UNCHANGED <<raw, runner, engineTags, stabilityVars, appVars>>

\* window.runA11yScan(config): normalize and return; config.impacts is not
\* read
runA11yScan(config) ==
  /\ request' = config
  /\ path' = "runA11yScan"
  /\ axeCall' = buildAxeConfig(runner, config)
  /\ warned' = invalidTags(runner, config)
  /\ report' = normalizeResults(runner, raw)
  /\ normalized' = [before |-> report', after |-> report']
  /\ UNCHANGED <<raw, runner, engineTags, stabilityVars, appVars>>

RunnerInit ==
  /\ resultsByTab = [k \in {} |-> NoReport]
  /\ tabs = [t \in TabIds |-> [url |-> <<"a">>, open |-> TRUE, entryPoint |-> FALSE]]
  /\ active = 1
  /\ pageResult = [t \in TabIds |-> FALSE]
  /\ pageError = [t \in TabIds |-> FALSE]
  /\ popupOpen = FALSE
  /\ isScanning = FALSE
  /\ ui = "ready"
  /\ pc = [p \in Procs |-> "idle"]
  /\ kind = [p \in Procs |-> "none"]
  /\ tab = [p \in Procs |-> NoTab]
  /\ i = [p \in Procs |-> 0]
  /\ result = [p \in Procs |-> NoReport]
  /\ rpc = "idle"
  /\ rtab = NoTab
  /\ restored = NoReport
  /\ lastCall = "none"
  /\ reply = [type |-> "none", results |-> NoReport]
  /\ event = [type |-> "none", tabId |-> 0, deleted |-> 0]
  /\ raw \in RawResults(MaxOutcomes)
  /\ runner \in Runners
  /\ request = NoConfig
  /\ path = "none"
  /\ report = <<>>
  /\ normalized = NoNormalized
  /\ engineTags = DefaultEngineTags
  /\ axeCall = NoCall
  /\ warned = <<>>
  /\ now = 0
  /\ wait = NoWait
  /\ RestIdle

RunnerNext ==
  \/ \E config \in Configs : handleScan(config)
  \/ \E config \in Configs : runA11yScan(config)

SpecRunner == RunnerInit /\ [][RunnerNext]_vars

\* ------------------------------------------- the runner and its engine
\* popup and service worker at rest
AppIdle ==
  /\ resultsByTab = [k \in {} |-> NoReport]
  /\ tabs = [t \in TabIds |-> [url |-> <<"a">>, open |-> TRUE, entryPoint |-> FALSE]]
  /\ active = 1
  /\ pageResult = [t \in TabIds |-> FALSE]
  /\ pageError = [t \in TabIds |-> FALSE]
  /\ popupOpen = FALSE
  /\ isScanning = FALSE
  /\ ui = "ready"
  /\ pc = [p \in Procs |-> "idle"]
  /\ kind = [p \in Procs |-> "none"]
  /\ tab = [p \in Procs |-> NoTab]
  /\ i = [p \in Procs |-> 0]
  /\ result = [p \in Procs |-> NoReport]
  /\ rpc = "idle"
  /\ rtab = NoTab
  /\ restored = NoReport
  /\ lastCall = "none"
  /\ reply = [type |-> "none", results |-> NoReport]
  /\ event = [type |-> "none", tabId |-> 0, deleted |-> 0]

\* axe.configure(...) by the page or another script changes the rules the
\* engine has registered
configureEngine(tags) ==
  /\ engineTags # tags
  /\ engineTags' = tags
  /\ UNCHANGED <<raw, runner, request, path, report, normalized, axeCall,
                 warned, stabilityVars, appVars>>

EngineInit ==
  /\ AppIdle
  /\ raw \in RawResults(1)
  /\ runner \in EngineRunners
  /\ request = NoConfig
  /\ path = "none"
  /\ report = <<>>
  /\ normalized = NoNormalized
  /\ engineTags \in EngineTagLists
  /\ axeCall = NoCall
  /\ warned = <<>>
  /\ now = 0
  /\ wait = NoWait
  /\ RestIdle

EngineNext ==
  \/ \E tags \in EngineTagLists : configureEngine(tags)
  \/ \E config \in EngineConfigs : handleScan(config)
  \/ \E config \in EngineConfigs : runA11yScan(config)

SpecEngine == EngineInit /\ [][EngineNext]_vars


\* ------------------------------------------------- waitForDomStability
\* the period of the setInterval that looks for a quiet window
IntervalMs == 100

\* the resolution of the clock: mutations and timers happen at multiples
\* of it
ClockStepMs == 50

\* an optional number of a config: empty when the field is undefined
StabilityConfigs ==
  [domQuietMs : {<<>>, <<0>>, <<100>>, <<1000>>},
   domSettleMs : {<<>>, <<300>>}]

\* v || d on an optional number
orDefault(v, d) == IF Len(v) = 0 \/ v[1] = 0 THEN d ELSE v[1]

\* the promise executor: lastMutation = Date.now(), the observer, the
\* interval and the timeout are set up
startWait(script, quietWindowMs, maxWaitMs, configured) ==
  /\ wait.pc # "pending"
  /\ now' = 0
  /\ wait' = [pc |-> "pending", script |-> script,
              quietWindowMs |-> quietWindowMs, maxWaitMs |-> maxWaitMs,
              lastMutation |-> 0, nextTick |-> IntervalMs, resolvedAt |-> 0,
              observed |-> <<>>, configured |-> configured,
              observing |-> TRUE, interval |-> (script = "part_002"),
              timeout |-> TRUE, resolves |-> 0]
  /\ UNCHANGED <<engineVars, appVars>>

\* handleScan up to its first await
handleScanWaits(config) ==
  startWait("part_002", orDefault(config.domQuietMs, 500),
            orDefault(config.domSettleMs, 3000), config.domQuietMs)

\* window.runA11yScan up to its first await: the windows are fixed
runA11yScanWaits ==
  startWait("part_002", 500, 3000, <<>>)

\* handleScan of the second script of part_001 up to its first await: its
\* waitForDomStability(timeoutMs) has a timeout and no interval
legacyHandleScanWaits(config) ==
  startWait("part_001", 0, orDefault(config.domSettleMs, 1500), <<>>)

\* mutant: the quiet window is measured from the call
quietElapsed_sinceCall == now >= wait.quietWindowMs

\* the interval's test of the quiet window
quietElapsed == now - wait.lastMutation >= wait.quietWindowMs

\* mutant: the timeout is set to twice maxWaitMs
timeoutAt_twice == 2 * wait.maxWaitMs

\* when the setTimeout is due
timeoutAt == wait.maxWaitMs

\* mutant: cleanup() clears the timers and resolves, the observer stays
\* connected
cleanup_keepsObserver ==
  wait' = [wait EXCEPT !.pc = "resolved", !.resolvedAt = now,
                       !.interval = FALSE, !.timeout = FALSE,
                       !.resolves = @ + 1]

\* cleanup(): both timers cleared, the observer disconnected, resolve();
\* the timeout callback of part_001's second script does the same with the
\* one timer it has
cleanup ==
  wait' = [wait EXCEPT !.pc = "resolved", !.resolvedAt = now,
                       !.interval = FALSE, !.timeout = FALSE,
                       !.observing = FALSE, !.resolves = @ + 1]

\* a timer of the pending wait is due now
timerDue ==
  /\ wait.pc = "pending"
  /\ \/ now >= timeoutAt
     \/ wait.script = "part_002" /\ now >= wait.nextTick

\* the page mutates its DOM and the MutationObserver callback runs
mutation ==
  /\ wait.observing
  /\ wait.observed # <<now>>
  /\ wait' = [wait EXCEPT
                !.lastMutation = IF wait.script = "part_002" THEN now ELSE @,
                !.observed = <<now>>]
  /\ UNCHANGED <<now, engineVars, appVars>>

\* the setInterval callback
intervalTick ==
  /\ wait.interval
  /\ now >= wait.nextTick
  /\ IF quietElapsed
     THEN cleanup
     ELSE wait' = [wait EXCEPT !.nextTick = @ + IntervalMs]
  /\ UNCHANGED <<now, engineVars, appVars>>

\* the setTimeout callback
timeoutFires ==
  /\ wait.timeout
  /\ now >= timeoutAt
  /\ cleanup
  /\ UNCHANGED <<now, engineVars, appVars>>

\* time passes while the wait is pending and no timer is due
timePasses ==
  /\ wait.pc = "pending"
  /\ ~timerDue
  /\ now' = now + ClockStepMs
  /\ UNCHANGED <<wait, engineVars, appVars>>

StabilityInit ==
  /\ AppIdle
  /\ raw = EmptyRaw
  /\ runner = "part_002"
  /\ request = NoConfig
  /\ path = "none"
  /\ report = <<>>
  /\ normalized = NoNormalized
  /\ engineTags = DefaultEngineTags
  /\ axeCall = NoCall
  /\ warned = <<>>
  /\ now = 0
  /\ wait = NoWait
  /\ RestIdle

StabilityNext ==
  \/ \E config \in StabilityConfigs : handleScanWaits(config)
  \/ runA11yScanWaits
  \/ \E config \in StabilityConfigs : legacyHandleScanWaits(config)
  \/ mutation
  \/ intervalTick
  \/ timeoutFires
  \/ timePasses

\* timers that are due run, and time passes
SpecStability ==
  /\ StabilityInit
  /\ [][StabilityNext]_vars
  /\ WF_vars(intervalTick)
  /\ WF_vars(timeoutFires)
  /\ WF_vars(timePasses)

\* ------------------------------------------------------------- reporters
\* texts are sequences of characters and of longer chunks without markup
\* characters; "<" is the character that opens markup
Markup == <<"<", "x", ">", "&", "\"">>

\* a tag of a custom rule that carries markup
MarkupTag == <<"wcag", "<", "x", ">">>

ExportImpacts == {"critical", "minor"}

exportNode(k, j) ==
  [html |-> <<"e", ToString(k), ToString(j)>>, failureSummary |-> <<"f">>]

exportViolation(k, imp, n) ==
  [id |-> <<"r", ToString(k)>>, impact |-> <<imp>>, help |-> <<"h">>,
   description |-> <<"d">>, helpUrl |-> <<"http", "u">>,
   tags |-> << <<"wcag2a">>, <<"best-practice">> >>,
   nodes |-> [j \in 1..n |-> exportNode(k, j)]]

exportOutcome(c) ==
  [id |-> <<c>>, description |-> <<"d">>, helpUrl |-> <<"http", "u">>]

\* the impact and the number of nodes of each violation of a report
ExportShapes ==
  UNION {[1..m -> ExportImpacts \X (0..MaxNodes)] : m \in 0..MaxViolations}

\* the report of a page whose texts carry no markup
plainReport(shape, others) ==
  [set |-> TRUE,
   url |-> <<"http", "a">>,
   violations |-> [k \in 1..Len(shape) |->
                     exportViolation(k, shape[k][1], shape[k][2])],
   passes |-> [n \in 1..others |-> exportOutcome("p")],
   incomplete |-> [n \in 1..others |-> exportOutcome("i")]]

NoPlace == [part |-> "none", k |-> 0, j |-> 0, field |-> "none"]

\* the fields of a report that come from the page or from the engine
Places(r) ==
  {NoPlace, [NoPlace EXCEPT !.part = "url"]}
  \cup {[part |-> "violations", k |-> k, j |-> 0, field |-> f] :
          k \in 1..Len(r.violations),
          f \in {"id", "impact", "help", "description", "helpUrl", "tags"}}
  \cup UNION {{[part |-> "nodes", k |-> k, j |-> j, field |-> f] :
                 j \in 1..Len(r.violations[k].nodes),
                 f \in {"html", "failureSummary"}} :
              k \in 1..Len(r.violations)}
  \cup {[part |-> c, k |-> k, j |-> 0, field |-> f] :
          c \in {c \in {"passes", "incomplete"} : Len(r[c]) > 0},
          k \in {1}, f \in {"id", "description", "helpUrl"}}

\* the report with markup in one of its fields
withMarkup(r, at) ==
  CASE at.part = "url" -> [r EXCEPT !.url = Markup]
    [] at.part = "violations" /\ at.field = "tags" ->
         [r EXCEPT !.violations[at.k].tags = Append(@, MarkupTag)]
    [] at.part = "violations" ->
         [r EXCEPT !.violations[at.k][at.field] = Markup]
    [] at.part = "nodes" ->
         [r EXCEPT !.violations[at.k].nodes[at.j][at.field] = Markup]
    [] at.part \in {"passes", "incomplete"} ->
         [r EXCEPT ![at.part][at.k][at.field] = Markup]
    [] OTHER -> r

ExportReports ==
  UNION {{withMarkup(r, at) : at \in Places(r)} :
         r \in {plainReport(s, n) : s \in ExportShapes, n \in {0, 1}}}

RECURSIVE concatAll(_)
concatAll(ss) ==
  IF Len(ss) = 0 THEN <<>> ELSE Head(ss) \o concatAll(Tail(ss))

\* Array.prototype.join of texts
RECURSIVE join(_, _)
join(texts, sep) ==
  IF Len(texts) = 0 THEN <<>>
  ELSE IF Len(texts) = 1 THEN texts[1]
  ELSE texts[1] \o <<sep>> \o join(Tail(texts), sep)

\* a || b of texts: the empty text is falsy
orText(a, b) == IF Len(a) > 0 THEN a ELSE b

\* part_000: const impactToLevel, and its `|| 'warning'` at the use
impactToLevel(impact) ==
  CASE impact = <<"critical">> -> "error"
    [] impact = <<"serious">> -> "error"
    [] impact = <<"moderate">> -> "warning"
    [] impact = <<"minor">> -> "note"
    [] OTHER -> "warning"

normalizeUri(uri) ==
  IF Len(uri) = 0 THEN <<"file:///unknown">>
  ELSE IF uri[1] = "http" THEN uri
  ELSE <<"file://">> \o uri

buildRule(rule) ==
  [id |-> rule.id, help |-> rule.help,
   fullDescription |-> orText(rule.description, rule.help),
   markdown |-> rule.helpUrl, tags |-> rule.tags]

buildResult(violation, node, pageUrl) ==
  [ruleId |-> violation.id,
   level |-> impactToLevel(violation.impact),
   message |-> violation.help,
   uri |-> normalizeUri(pageUrl),
   snippet |-> node.html,
   impact |-> violation.impact,
   wcagTags |-> violation.tags,
   failureSummary |-> node.failureSummary]

\* Object.values(rules): one rule per id, in the order the ids were first
\* set, each with the value set last
sarifRules(violations) ==
  LET first(k) == \A m \in 1..(k - 1) : violations[m].id # violations[k].id
      last(k) == CHOOSE m \in k..Len(violations) :
                   /\ violations[m].id = violations[k].id
                   /\ \A q \in (m + 1)..Len(violations) :
                        violations[q].id # violations[k].id
      firsts == SelectSeq([k \in 1..Len(violations) |-> k], first)
  IN [n \in 1..Len(firsts) |-> buildRule(violations[last(firsts[n])])]

\* part_000 writeSarif: the document written to the output file
sarifOf(results) ==
  [by |-> "writeSarif", file |-> "sarif",
   runs |-> << [rules |-> sarifRules(results.violations),
                results |-> concatAll(
                  [k \in 1..Len(results.violations) |->
                     [j \in 1..Len(results.violations[k].nodes) |->
                        buildResult(results.violations[k],
                                    results.violations[k].nodes[j],
                                    results.url)]])] >>,
   report |-> NoActiveResults, html |-> <<>>]

\* part_000 escapeHtml: String.replace of & < > by their entities
escapeHtml000(str) ==
  LET entity(c) == CASE c = "&" -> "&amp;"
                     [] c = "<" -> "&lt;"
                     [] c = ">" -> "&gt;"
                     [] OTHER -> c
  IN [n \in 1..Len(str) |-> entity(str[n])]

\* service-worker.js escapeHtml: & < > " '
escapeHtml(unsafe) ==
  LET entity(c) == CASE c = "&" -> "&amp;"
                     [] c = "<" -> "&lt;"
                     [] c = ">" -> "&gt;"
                     [] c = "\"" -> "&quot;"
                     [] c = "'" -> "&#039;"
                     [] OTHER -> c
  IN [n \in 1..Len(unsafe) |-> entity(unsafe[n])]

impactBadge(impact) ==
  <<"<span style=\"background:",
    CASE impact = <<"critical">> -> "#b91c1c"
      [] impact = <<"serious">> -> "#dc2626"
      [] impact = <<"moderate">> -> "#f59e0b"
      [] impact = <<"minor">> -> "#2563eb"
      [] OTHER -> "#6b7280",
    "\">">> \o impact \o <<"</span>">>

renderViolation(violation) ==
  <<"<section class=\"violation\">", "<h3>">> \o violation.help
  \o impactBadge(violation.impact)
  \o <<"</h3>", "<p>">> \o violation.description
  \o <<"</p>", "<strong>Rule:</strong>">> \o violation.id
  \o <<"<strong>WCAG:</strong>">> \o join(violation.tags, ", ")
  \o <<"<a href=\"">> \o violation.helpUrl \o <<"\">Fix guidance</a>">>
  \o concatAll([j \in 1..Len(violation.nodes) |->
       <<"<details>", "<pre>">> \o escapeHtml000(violation.nodes[j].html)
       \o <<"</pre>", "<p>">> \o violation.nodes[j].failureSummary
       \o <<"</p>", "</details>">>])
  \o <<"</section>">>

\* part_000 writeHtml: the document written to the output file
htmlOf(results) ==
  [by |-> "writeHtml", file |-> "html", runs |-> <<>>,
   report |-> NoActiveResults,
   html |->
     <<"<h1>Accessibility Report</h1>", "<strong>URL:</strong>">>
     \o orText(results.url, <<"Unknown">>)
     \o <<"<strong>Violations:</strong>", ToString(Len(results.violations))>>
     \o (IF Len(results.violations) = 0
         THEN <<"<p>No accessibility violations detected.</p>">>
         ELSE concatAll([k \in 1..Len(results.violations) |->
                           renderViolation(results.violations[k])]))
     \o <<"<hr />">>]

\* tag.includes(level) for the WCAG level tags
includesTag(tag, level) ==
  \E n \in 1..Len(tag) :
    CASE level = "wcag" -> tag[n] \in {"wcag", "wcag2a", "wcag2aa", "wcag2aaa"}
      [] level = "wcag2a" -> tag[n] \in {"wcag2a", "wcag2aa", "wcag2aaa"}
      [] level = "wcag2aa" -> tag[n] \in {"wcag2aa", "wcag2aaa"}
      [] OTHER -> tag[n] = level

\* the badge of a WCAG level in exportHTMLReport
wcagBadge(violations, level) ==
  IF \A k \in 1..Len(violations) :
       \A n \in 1..Len(violations[k].tags) :
         ~includesTag(violations[k].tags[n], level)
  THEN "<div class=\"wcag-badge compliant\">"
  ELSE "<div class=\"wcag-badge non-compliant\">"

\* one <article> of exportHTMLReport
articleOf(v) ==
  LET isWcag(t) == includesTag(t, "wcag")
      wcagCriteria == SelectSeq(v.tags, isWcag)
      wcagLinks == join([n \in 1..Len(wcagCriteria) |->
                           <<"<a href=\"quickref/#">> \o wcagCriteria[n]
                           \o <<"\">">> \o wcagCriteria[n] \o <<"</a>">>],
                        ", ")
  IN <<"<article class=\"violation\">", "<h3>">> \o escapeHtml(v.help)
     \o <<"</h3>", "<span class=\"badge ">> \o v.impact \o <<"\">">>
     \o v.impact
     \o <<"</span>", "<strong>Rule ID:</strong>">> \o escapeHtml(v.id)
     \o (IF Len(wcagLinks) > 0
         THEN <<"<strong>WCAG Criteria:</strong>">> \o wcagLinks ELSE <<>>)
     \o (IF Len(v.tags) > 0
         THEN <<"<strong>Tags:</strong>">> \o escapeHtml(join(v.tags, ", "))
         ELSE <<>>)
     \o (IF Len(v.description) > 0
         THEN <<"<strong>Description:</strong>">> \o escapeHtml(v.description)
         ELSE <<>>)
     \o (IF Len(v.nodes) > 0
         THEN <<"<details>", ToString(Len(v.nodes))>>
              \o concatAll([j \in 1..Len(v.nodes) |->
                   <<"<div class=\"node\">">>
                   \o (IF Len(v.nodes[j].html) > 0
                       THEN <<"<pre><code>">>
                            \o escapeHtml(SubSeq(v.nodes[j].html, 1,
                                 IF Len(v.nodes[j].html) < 200
                                 THEN Len(v.nodes[j].html) ELSE 200))
                            \o (IF Len(v.nodes[j].html) > 200
                                THEN <<"...">> ELSE <<>>)
                            \o <<"</code></pre>">>
                            \o (IF Len(v.nodes[j].failureSummary) > 0
                                THEN <<"<strong>Issue:</strong>">>
                                     \o escapeHtml(v.nodes[j].failureSummary)
                                ELSE <<>>)
                       ELSE <<>>)
                   \o <<"</div>">>])
              \o <<"</details>">>
         ELSE <<>>)
     \o <<"</article>">>

\* the Incomplete and Passed sections of exportHTMLReport
outcomeOf(item, withLink) ==
  <<"<h4>">> \o escapeHtml(item.id) \o <<"</h4>">>
  \o (IF Len(item.description) > 0
      THEN <<"<p>">> \o escapeHtml(item.description) \o <<"</p>">> ELSE <<>>)
  \o (IF withLink /\ Len(item.helpUrl) > 0
      THEN <<"<a href=\"">> \o escapeHtml(item.helpUrl)
           \o <<"\">Learn more</a>">>
      ELSE <<>>)

\* service-worker.js exportHTMLReport: the document downloaded
htmlReportOf(results) ==
  [by |-> "exportHTMLReport", file |-> "html", runs |-> <<>>,
   report |-> NoActiveResults,
   html |->
     <<"<h1>Accessibility Compliance Report</h1>", "<h3>URL</h3>">>
     \o escapeHtml(orText(results.url, <<"Current page">>))
     \o <<"<h3>Scan Standards</h3>", "WCAG 2.2 AA",
          wcagBadge(results.violations, "wcag2a"),
          wcagBadge(results.violations, "wcag2aa"),
          wcagBadge(results.violations, "wcag2aaa"),
          ToString(Len(results.violations)), ToString(Len(results.passes))>>
     \o (IF Len(results.violations) > 0
         THEN concatAll([k \in 1..Len(results.violations) |->
                           articleOf(results.violations[k])])
         ELSE <<"<h3>No Accessibility Violations Found!</h3>">>)
     \o concatAll([k \in 1..Len(results.incomplete) |->
                     outcomeOf(results.incomplete[k], TRUE)])
     \o concatAll([k \in 1..Len(results.passes) |->
                     outcomeOf(results.passes[k], FALSE)])]

\* service-worker.js exportReport(type), the declaration that is in force:
\* JSON.stringify of { metadata, results: activeResults, summary }
jsonOf(results, type) ==
  [by |-> "exportReport",
   file |-> IF type = "sarif" THEN "sarif.json" ELSE "json",
   runs |-> <<>>, report |-> results, html |-> <<>>]

\* every other component at rest
ExportOnly ==
  UNCHANGED <<engineVars, stabilityVars, resultsByTab, browserVars,
              popupVars, workerVars, policyVars, messageVars>>

writeSarif ==
  /\ activeResults.set
  /\ exported' = sarifOf(activeResults)
  /\ UNCHANGED activeResults
  /\ ExportOnly

writeHtml ==
  /\ activeResults.set
  /\ exported' = htmlOf(activeResults)
  /\ UNCHANGED activeResults
  /\ ExportOnly

exportHTMLReport ==
  /\ exported' = IF activeResults.set THEN htmlReportOf(activeResults)
                 ELSE exported
  /\ UNCHANGED activeResults
  /\ ExportOnly

exportReport(type) ==
  /\ exported' = IF activeResults.set THEN jsonOf(activeResults, type)
                 ELSE exported
  /\ UNCHANGED activeResults
  /\ ExportOnly

\* the runner script not yet called
RunnerIdle ==
  /\ raw = EmptyRaw
  /\ runner = "part_002"
  /\ request = NoConfig
  /\ path = "none"
  /\ report = <<>>
  /\ normalized = NoNormalized
  /\ engineTags = DefaultEngineTags
  /\ axeCall = NoCall
  /\ warned = <<>>
  /\ now = 0
  /\ wait = NoWait

ExportInit ==
  /\ AppIdle
  /\ RunnerIdle
  /\ PolicyIdle
  /\ MessageIdle
  /\ activeResults \in ExportReports \cup {NoActiveResults}
  /\ exported = NoExport

ExportNext ==
  \/ writeSarif
  \/ writeHtml
  \/ exportHTMLReport
  \/ \E type \in {"html", "sarif"} : exportReport(type)

SpecExport == ExportInit /\ [][ExportNext]_vars

\* ---------------------------------------------------------------- policy
\* the scripts that declare loadPolicy
PolicyScripts == {"service-worker.js", "popup.js"}

\* what policy.json can be: absent (fetch rejects), answered with an error
\* status, not JSON, or a JSON object with or without automation.tags and
\* standards
PolicyFiles ==
  {[kind |-> k, json |-> NoPolicy] : k \in {"absent", "notOk", "invalid"}}
  \cup {[kind |-> "json",
         json |-> [set |-> TRUE, hasTags |-> FALSE, tags |-> <<>>,
                   standards |-> s]] : s \in BOOLEAN}
  \cup {[kind |-> "json",
         json |-> [set |-> TRUE, hasTags |-> TRUE, tags |-> t,
                   standards |-> s]] :
          t \in {<<"wcag2a", "wcag2aa">>, <<"wcag21aa">>, <<"section508">>},
          s \in BOOLEAN}

\* the policy of the catch block of loadPolicy
defaultPolicy ==
  [set |-> TRUE, hasTags |-> TRUE,
   tags |-> <<"wcag2a", "wcag2aa", "wcag21aa", "wcag22aa">>,
   standards |-> TRUE]

\* how a call of loadPolicy ends: [outcome, value, policy, fetched]
loadPolicyOf(script, file, cached) ==
  IF cached.set
  THEN [outcome |-> "returned", value |-> cached, policy |-> cached,
        fetched |-> 0]
  ELSE IF script = "service-worker.js"
  THEN IF file.kind = "json"
       THEN LET p == [file.json EXCEPT !.standards = TRUE]
            IN [outcome |-> "returned", value |-> p, policy |-> p,
                fetched |-> 1]
       ELSE [outcome |-> "returned", value |-> defaultPolicy,
             policy |-> cached, fetched |-> 1]
  ELSE IF file.kind = "json"
       THEN [outcome |-> "returned", value |-> file.json,
             policy |-> file.json, fetched |-> 1]
       ELSE [outcome |-> "rejected", value |-> NoPolicy, policy |-> cached,
             fetched |-> 1]

\* every other component at rest
PolicyOnly ==
  UNCHANGED <<engineVars, stabilityVars, resultsByTab, browserVars,
              popupVars, workerVars, reporterVars, messageVars>>

\* a call of loadPolicy()
loadPolicy ==
  /\ loaded.calls < MaxLoads
  /\ LET r == loadPolicyOf(policyScript, policyFile, policy)
     IN /\ policy' = r.policy
        /\ loaded' = [calls |-> loaded.calls + 1,
                      fetches |-> loaded.fetches + r.fetched,
                      outcome |-> r.outcome, value |-> r.value,
                      scan |-> "none"]
  /\ UNCHANGED <<policyScript, policyFile>>
  /\ PolicyOnly

\* runScan of popup.js up to the scan call: const policy = await
\* loadPolicy(); ...; args: [{ tags: policy.automation.tags, impacts }];
\* a rejection or a TypeError goes to catch: 'Scan failed'
runScanLoadsPolicy ==
  /\ policyScript = "popup.js"
  /\ loaded.calls < MaxLoads
  /\ LET r == loadPolicyOf(policyScript, policyFile, policy)
     IN /\ policy' = r.policy
        /\ loaded' = [calls |-> loaded.calls + 1,
                      fetches |-> loaded.fetches + r.fetched,
                      outcome |-> r.outcome, value |-> r.value,
                      scan |-> IF r.outcome = "returned" /\ r.value.hasTags
                               THEN "started" ELSE "failed"]
  /\ UNCHANGED <<policyScript, policyFile>>
  /\ PolicyOnly

PolicyInit ==
  /\ AppIdle
  /\ RunnerIdle
  /\ ReporterIdle
  /\ MessageIdle
  /\ policyScript \in PolicyScripts
  /\ policyFile \in PolicyFiles
  /\ policy = NoPolicy
  /\ loaded = NoLoad

PolicyNext ==
  \/ loadPolicy
  \/ runScanLoadsPolicy

SpecPolicy == PolicyInit /\ [][PolicyNext]_vars

\* ------------------------------------- the runner's onMessage listeners
MessageTypes == {"RUN_A11Y_SCAN", "PING"}

\* every other component at rest
MessageOnly ==
  UNCHANGED <<engineVars, stabilityVars, resultsByTab, browserVars,
              popupVars, workerVars, reporterVars, policyVars>>

\* executeScript({ files: [..., 'content/axe-runner.js'] }) on the same
\* document: the IIFE runs again and calls onMessage.addListener
injectRunnerScript ==
  /\ runnerMessage.type = "none"
  /\ listeners < MaxInjections
  /\ listeners' = listeners + 1
  /\ UNCHANGED <<runnerMessage, scanRuns, responses, delivered>>
  /\ MessageOnly

\* a message reaches the page: every registered listener is called with it;
\* a listener returns at once for another type, else calls handleScan and
\* returns true
onRunnerMessage(type) ==
  /\ runnerMessage.type = "none"
  /\ listeners > 0
  /\ runnerMessage' = [type |-> type, axeRuns |-> 0]
  /\ scanRuns' = [l \in 1..MaxInjections |->
                    IF type = "RUN_A11Y_SCAN" /\ l <= listeners
                    THEN [pc |-> "stability", outcome |-> "none"]
                    ELSE NoRun]
  /\ responses' = <<>>
  /\ delivered' = NoResponse
  /\ UNCHANGED listeners
  /\ MessageOnly

\* await waitForDomStability(...) of handleScan resolves
stabilityDone(l) ==
  /\ scanRuns[l].pc = "stability"
  /\ scanRuns' = [scanRuns EXCEPT ![l].pc = "engine"]
  /\ UNCHANGED <<listeners, runnerMessage, responses, delivered>>
  /\ MessageOnly

\* mutant: the catch callback sends nothing
sendResponse_notOnError(l, success) ==
  /\ responses' = IF success
                  THEN Append(responses, [from |-> l, success |-> success])
                  ELSE responses
  /\ delivered' = IF delivered.set \/ ~success THEN delivered
                  ELSE [set |-> TRUE, from |-> l, success |-> success]

\* sendResponse of listener l, from its then or its catch callback; the
\* sender's callback gets the first response of a request
sendResponse(l, success) ==
  /\ responses' = Append(responses, [from |-> l, success |-> success])
  /\ delivered' = IF delivered.set THEN delivered
                  ELSE [set |-> TRUE, from |-> l, success |-> success]

\* runAxe: window.axe.run(document, axeConfig) is called; it resolves with
\* the raw results or rejects
axeRun(l) ==
  /\ scanRuns[l].pc = "engine"
  /\ runnerMessage' = [runnerMessage EXCEPT !.axeRuns = @ + 1]
  /\ \/ /\ scanRuns' = [scanRuns EXCEPT ![l].pc = "normalize"]
        /\ UNCHANGED <<responses, delivered>>
     \/ /\ scanRuns' = [scanRuns EXCEPT ![l] = [pc |-> "done", outcome |-> "rejected"]]
        /\ sendResponse(l, FALSE)
  /\ UNCHANGED listeners
  /\ MessageOnly

\* normalizeResults and filterByImpact return, and handleScan resolves; or
\* one of them throws, and handleScan rejects
normalizeDone(l) ==
  /\ scanRuns[l].pc = "normalize"
  /\ \/ /\ scanRuns' = [scanRuns EXCEPT ![l] = [pc |-> "done", outcome |-> "resolved"]]
        /\ sendResponse(l, TRUE)
     \/ /\ scanRuns' = [scanRuns EXCEPT ![l] = [pc |-> "done", outcome |-> "rejected"]]
        /\ sendResponse(l, FALSE)
  /\ UNCHANGED <<listeners, runnerMessage>>
  /\ MessageOnly

\* every listener is through with the message: the channel closes
messageDone ==
  /\ runnerMessage.type # "none"
  /\ \A l \in 1..MaxInjections : scanRuns[l].pc \in {"idle", "done"}
  /\ runnerMessage' = NoMessage
  /\ scanRuns' = [l \in 1..MaxInjections |-> NoRun]
  /\ responses' = <<>>
  /\ delivered' = NoResponse
  /\ UNCHANGED listeners
  /\ MessageOnly

MessageInit ==
  /\ AppIdle
  /\ RunnerIdle
  /\ ReporterIdle
  /\ PolicyIdle
  /\ MessageIdle

MessageNext ==
  \/ injectRunnerScript
  \/ \E type \in MessageTypes : onRunnerMessage(type)
  \/ \E l \in 1..MaxInjections : stabilityDone(l)
  \/ \E l \in 1..MaxInjections : axeRun(l)
  \/ \E l \in 1..MaxInjections : normalizeDone(l)
  \/ messageDone

SpecMessage == MessageInit /\ [][MessageNext]_vars

\* ================================================================== claims
\* a scan handler is in its pipeline from the engine invocation to the end
\* of its polling loop
InPipeline(p) == pc[p] \in {"invoke", "poll"}

\* C1: no scan is in its pipeline (stability wait, engine invocation, result
\* polling) while another scan handler has not yet ended
C1_AtMostOneScanInFlight ==
  \A p \in Procs, q \in Procs : (p # q /\ InPipeline(p)) => pc[q] = "idle"

\* a scan request: a click on Run Scan or on one of the two retry buttons
ScanRequest == runScan \/ runNoIframesScan \/ runBasicScan

NoSideEffects ==
  UNCHANGED <<isScanning, ui, pageResult, pageError, resultsByTab, procVars>>

EmptyPoll(p) ==
  /\ pollResult(p)
  /\ kind[p] = "runScan"
  /\ tabs[tab[p].id].open
  /\ ~pageResult[tab[p].id]
  /\ ~pageError[tab[p].id]

\* C3: when the 50th poll of runScan still finds neither a result nor an
\* error, the scan ends there with the timeout error, without another poll
\* and without touching the Result Store; it never times out earlier
C3_TimeoutAfterBoundedPolls ==
  [][\A p \in Procs :
       /\ (EmptyPoll(p) /\ i[p] = maxAttempts - 1) =>
            /\ pc'[p] = "idle"
            /\ ui' = "errTimeout"
            /\ ~isScanning'
            /\ resultsByTab' = resultsByTab
       /\ (EmptyPoll(p) /\ i[p] < maxAttempts - 1) =>
            /\ pc'[p] = "poll"
            /\ i'[p] = i[p] + 1
            /\ ui' = ui
            /\ resultsByTab' = resultsByTab
       /\ (pollResult(p) /\ ui' = "errTimeout") => i[p] = maxAttempts - 1]_vars

C3_Witness ==
  /\ ui = "errTimeout"
  /\ ~isScanning
  /\ \A p \in Procs : pc[p] = "idle"

\* C4: a stored-report lookup never returns a report produced from a
\* document its tab showed before a navigation
C4_NoStaleReportAfterNavigation == restored.doc # "previous"

\* the tab a key of the Result Store was built for
ownerOf(key) ==
  CHOOSE t \in StoreTabs : \E u \in Urls : key = tabKey([id |-> t, url |-> u])

\* C5: when a tab starts loading or is closed, exactly the entries of that
\* tab are removed; the entries of every other tab stay as they were
C5_InvalidationRemovesOnlyTabEntries ==
  [][\A t \in StoreTabs :
       (storeUpdated(t, "loading") \/ storeRemoved(t)) =>
         /\ DOMAIN resultsByTab' = {k \in DOMAIN resultsByTab : ownerOf(k) # t}
         /\ \A k \in DOMAIN resultsByTab' : resultsByTab'[k] = resultsByTab[k]]_vars

C5_Witness ==
  /\ event.type \in {"loading", "removed"}
  /\ event.tabId = 1
  /\ event.deleted > 0
  /\ \E k \in DOMAIN resultsByTab : ownerOf(k) = 11
  /\ \E k \in DOMAIN resultsByTab : ownerOf(k) = 12
  /\ \A k \in DOMAIN resultsByTab : ownerOf(k) # 1

\* the entry of the Result Store under a key, NoReport when there is none
entry(map, key) == IF key \in DOMAIN map THEN map[key] ELSE NoReport

PopupKeys == {tabKey([id |-> t, url |-> u]) : t \in TabIds, u \in Urls}

\* C6: a successful scan stores its report under the key of the tab it
\* resolved; a lookup returns exactly the stored report, or nothing for a key
\* without entry; an entry changes only when a scan saves under its key or
\* when its tab is invalidated
C6_StoredReportReturnedUntilOverwritten ==
  [][/\ \A p \in Procs :
          saveResults(p) =>
            /\ entry(resultsByTab', tabKey(tab[p])) = result[p]
            /\ result[p] # NoReport
            /\ result[p].url = tab[p].url
     /\ restoreIfExists =>
          IF tabKey(rtab) \in DOMAIN resultsByTab
          THEN restored' = resultsByTab[tabKey(rtab)] /\ ui' = "restored"
          ELSE restored' = restored /\ ui' = ui
     /\ \A k \in PopupKeys :
          entry(resultsByTab', k) # entry(resultsByTab, k) =>
            \/ \E p \in Procs : saveResults(p) /\ tabKey(tab[p]) = k
            \/ \A k2 \in PopupKeys : ownerOf(k2) = ownerOf(k) => k2 \notin DOMAIN resultsByTab']_vars

C6_Witness ==
  /\ ui = "restored"
  /\ restored # NoReport
  /\ restored = entry(resultsByTab, tabKey(queryActiveTab))
  /\ restored.doc = "current"

\* ---------------------------------------------------------------- C7 - C10
RECURSIVE sumCounts(_, _)
sumCounts(counts, keys) ==
  IF keys = {} THEN 0
  ELSE LET k == CHOOSE x \in keys : TRUE
       IN counts[k] + sumCounts(counts, keys \ {k})

tallyTotal(r) ==
  sumCounts(r.statistics.severityCounts, DOMAIN r.statistics.severityCounts)

nonEmptyFilter(config) == config.isArray /\ Len(config.values) > 0

inFilter(o) == includes(request.values, o.impact)

\* C7: every report a scan returns, through handleScan with or without an
\* impact filter or through runA11yScan, has statistics.totalTestsRun equal
\* to the total length of its violations, passes, incomplete and
\* inapplicable sequences.
C7_TotalTestsRunIsSumOfLengths ==
  path # "none" =>
    report.statistics.totalTestsRun =
      Len(report.violations) + Len(report.passes) + Len(report.incomplete)
        + Len(report.inapplicable)

\* C8: the report filterByImpact gives for any impact filter has a severity
\* tally whose entries sum to the number of violations of that report.
C8_SeverityTallySumsToViolations ==
  path = "handleScan" => tallyTotal(report) = Len(report.violations)

C8_Witness ==
  /\ path = "handleScan"
  /\ nonEmptyFilter(request)
  /\ Len(report.violations) > 0
  /\ Len(report.violations) < Len(raw.violations)
  /\ tallyTotal(report) = Len(report.violations)

\* C9: with a non-empty impact filter the returned violations, passes and
\* incomplete sequences are exactly the engine's outcomes whose impact is in
\* the filter, in order, and inapplicable is complete; with an empty or
\* missing filter all four sequences are complete; on both scan paths.
C9_ImpactFilterApplied ==
  path # "none" =>
    IF nonEmptyFilter(request)
    THEN /\ report.violations = SelectSeq(mapOutcomes(raw.violations), inFilter)
         /\ report.passes = SelectSeq(mapOutcomes(raw.passes), inFilter)
         /\ report.incomplete = SelectSeq(mapOutcomes(raw.incomplete), inFilter)
         /\ report.inapplicable = mapOutcomes(raw.inapplicable)
    ELSE /\ report.violations = mapOutcomes(raw.violations)
         /\ report.passes = mapOutcomes(raw.passes)
         /\ report.incomplete = mapOutcomes(raw.incomplete)
         /\ report.inapplicable = mapOutcomes(raw.inapplicable)

\* C10: an engine result with no outcome in any of the four sequences
\* normalizes to a report whose automatedCoverage is 0 and whose severity
\* tally counts nothing.
C10_EmptyResultHasZeroCoverage ==
  (path # "none" /\ raw = EmptyRaw) =>
    /\ report.statistics.automatedCoverage = 0
    /\ tallyTotal(report) = 0

\* --------------------------------------------------------------- C11 - C20
\* C11: normalizing the same engine result with the same context again gives
\* an identical report, whatever else changed in between (the rules the
\* engine has registered, earlier normalizations).
C11_NormalizationIsDeterministic ==
  [][\A config \in EngineConfigs :
       ((handleScan(config) /\ path = "handleScan" /\ request = config)
        \/ (runA11yScan(config) /\ path = "runA11yScan" /\ request = config))
       => report' = report]_vars

\* C12: a pending waitForDomStability is never older than its maxWaitMs and
\* always resolves (its promise has no way to reject), also while the DOM
\* keeps mutating.
C12_ResolvesWithinMaxWait ==
  /\ [](wait.pc = "pending" => now <= wait.maxWaitMs)
  /\ [](wait.pc = "resolved" => wait.resolvedAt <= wait.maxWaitMs)
  /\ (wait.pc = "pending") ~> (wait.pc = "resolved")

C12_Witness ==
  /\ wait.pc = "resolved"
  /\ wait.resolvedAt = wait.maxWaitMs
  /\ wait.quietWindowMs > 0
  /\ wait.observed # <<>>
  /\ wait.resolvedAt - wait.observed[1] < wait.quietWindowMs

\* how long the DOM had been quiet when the wait resolved
quietFor ==
  wait.resolvedAt - (IF wait.observed = <<>> THEN 0 ELSE wait.observed[1])

\* C13: a waitForDomStability that resolved before maxWaitMs saw no
\* mutation for at least the quiet window it was given, and for at least
\* the domQuietMs of handleScan's config (0 included).
C13_EarlyResolutionMeansQuietWindow ==
  (wait.pc = "resolved" /\ wait.script = "part_002"
     /\ wait.resolvedAt < wait.maxWaitMs) =>
    /\ quietFor >= wait.quietWindowMs
    /\ wait.configured # <<>> => quietFor >= wait.configured[1]

C13_Witness ==
  /\ wait.pc = "resolved"
  /\ wait.script = "part_002"
  /\ wait.resolvedAt < wait.maxWaitMs
  /\ wait.configured = <<0>>
  /\ wait.observed # <<>>
  /\ quietFor >= wait.quietWindowMs

\* a scan of either entry point with this config
scans(config) == handleScan(config) \/ runA11yScan(config)

engineKnows(tag) == includes(engineTags, tag)

engineIgnores(tag) == ~includes(engineTags, tag)

\* C14: a scan with a non-empty tag list tells the engine to run exactly
\* the requested tags it recognizes, in requested order, and reports each
\* unrecognized tag as a diagnostic.
C14_OnlyRecognizedTagsReachEngine ==
  [][\A config \in EngineConfigs :
       (scans(config) /\ Len(config.tags) > 0) =>
         /\ axeCall'.runOnly
         /\ axeCall'.values = SelectSeq(config.tags, engineKnows)
         /\ warned' = SelectSeq(config.tags, engineIgnores)]_vars

\* C15: when no tags are requested, or none of the requested tags is
\* recognized by the engine, the engine runs the default tag set (its own
\* when the run is not restricted) and never an empty restriction.
C15_DefaultsWhenNoValidTag ==
  [][\A config \in EngineConfigs :
       (scans(config) /\ SelectSeq(config.tags, engineKnows) = <<>>) =>
         /\ ~(axeCall'.runOnly /\ axeCall'.values = <<>>)
         /\ axeCall'.runOnly => axeCall'.values = defaultTags(runner)]_vars

\* C16: every engine invocation asks for all four outcome categories.
C16_AllFourResultTypesRequested ==
  path # "none" => axeCall.resultTypes = AllResultTypes

\* C17: when the engine is absent from the page, the scan is refused by a
\* presence check before the page function is called: a runScan handler
\* whose page has no window.runA11yScan never gets the call's exception
\* handler to record an error in the page.
C17_EngineAbsenceFoundBeforeInvocation ==
  [][\A p \in Procs :
       (/\ pc[p] = "invoke"
        /\ kind[p] = "runScan"
        /\ tabs[tab[p].id].open
        /\ ~tabs[tab[p].id].entryPoint)
       => (pageError'[tab[p].id] => pageError[tab[p].id])]_vars

\* the scan handlers' steps at which the tab query found no tab and the
\* popup is still showing afterwards
noTabFound(p) ==
  /\ pc[p] = "query"
  /\ queryActiveTab.id = 0
  /\ pc'[p] # "query"
  /\ popupOpen'

\* C18: when no active tab can be resolved, every scan entry point fails
\* with the no-tab failure shown to the user, nothing injected or invoked
\* in any page and the store unchanged.
C18_NoTabFailsEveryEntryPoint ==
  [][\A p \in Procs :
       noTabFound(p)
       => /\ ui' = "errNoTab"
          /\ resultsByTab' = resultsByTab
          /\ tabs' = tabs
          /\ pageResult' = pageResult
          /\ pageError' = pageError]_vars

\* what handleScanError renders: the message and the troubleshooting list
FailureUis ==
  {"errNoTab", "errAccess", "errOther", "errFrameTimeout", "errTimeout",
   "errStillFailed", "errBasicFailed"}

\* C19: no scan request ends silently: a scan handler that ends while the
\* popup is showing leaves either the rendered report or a failure
\* explanation in it.
C19_NeverFailsSilently ==
  [][\A p \in Procs :
       (pc[p] # "idle" /\ pc'[p] = "idle" /\ popupOpen')
       => ui' \in {"results"} \cup FailureUis]_vars

\* C20: scans are repeatable: a runScan whose engine run left its report
\* on the page goes on to save that report, whatever earlier scans of the
\* same document left there.
C20_SuccessfulRunReturnsItsReport ==
  [][\A p \in Procs :
       (/\ pc[p] = "poll"
        /\ kind[p] = "runScan"
        /\ tabs[tab[p].id].open
        /\ pageResult[tab[p].id]
        /\ pc'[p] # "poll"
        /\ popupOpen')
       => pc'[p] = "save"]_vars

\* --------------------------------------------------------------- C21 - C30
\* the (violation, affected node) pairs of a report
nodePairs(r) ==
  UNION {{<<k, j>> : j \in 1..Len(r.violations[k].nodes)} :
         k \in 1..Len(r.violations)}

\* the position of a pair in the report's order
pairIndex(r, pair) ==
  Cardinality({q \in nodePairs(r) :
                 q[1] < pair[1] \/ (q[1] = pair[1] /\ q[2] <= pair[2])})

\* C21: a SARIF export of a report holds in runs[0].results exactly one
\* entry per (violation, affected node) pair of the report, in order, and
\* nothing else, whether it is written by writeSarif or by the extension's
\* exportReport('sarif').
C21_SarifResultsOnePerPair ==
  exported.file \in {"sarif", "sarif.json"}
  => /\ Len(exported.runs) > 0
     /\ Len(exported.runs[1].results) = Cardinality(nodePairs(activeResults))
     /\ \A pair \in nodePairs(activeResults) :
          LET sarifEntry == exported.runs[1].results[pairIndex(activeResults, pair)]
              violation == activeResults.violations[pair[1]]
          IN /\ sarifEntry.ruleId = violation.id
             /\ sarifEntry.snippet = violation.nodes[pair[2]].html

\* C22: no exported HTML document holds a markup character that came from
\* the page or from the engine: every such text is escaped before it is
\* embedded.
C22_HtmlExportEscapesPageText ==
  exported.file = "html"
  => \A n \in 1..Len(exported.html) : exported.html[n] # "<"

\* C23: loading the policy never fails a scan: a call of loadPolicy returns
\* a policy; when policy.json is a policy with a tags list the call returns
\* those tags and the file was fetched once; otherwise it returns a default
\* whose tags include wcag2a and wcag2aa; and the scan that made the call
\* is not failed by it.
C23_PolicyLoadNeverFailsScan ==
  loaded.calls > 0
  => /\ loaded.outcome = "returned"
     /\ loaded.scan # "failed"
     /\ IF policyFile.kind = "json" /\ policyFile.json.hasTags
        THEN /\ loaded.value.tags = policyFile.json.tags
             /\ loaded.fetches = 1
        ELSE /\ loaded.value.hasTags
             /\ \A tag \in {"wcag2a", "wcag2aa"} :
                  \E n \in 1..Len(loaded.value.tags) : loaded.value.tags[n] = tag

\* the sendResponse calls of listener l for the request
responsesOf(l) ==
  LET from(r) == r.from = l IN SelectSeq(responses, from)

C30_OneEngineRunPerRequest == runnerMessage.axeRuns <= 1

\* the keys whose entry a step wrote
writtenKeys ==
  {key \in DOMAIN resultsByTab' :
     key \notin DOMAIN resultsByTab \/ resultsByTab'[key] # resultsByTab[key]}

\* C25: the Result Store is written only by a scan whose own pipeline
\* completed: a handler starts polling only when its engine invocation
\* returned with the report on the page, it goes on to save only from a
\* poll that read that report, and an entry is written only by a handler
\* at its save step, which stores the whole report it read.
C25_StoreWrittenAfterPipeline ==
  [][/\ \A p \in Procs :
          /\ (pc[p] # "poll" /\ pc'[p] = "poll")
             => (pc[p] = "invoke" /\ pageResult'[tab[p].id])
          /\ (pc[p] # "save" /\ pc'[p] = "save")
             => (/\ pc[p] = "poll"
                 /\ pageResult[tab[p].id]
                 /\ result'[p] = withMetadata(p))
     /\ \A key \in writtenKeys :
          \E p \in Procs :
            /\ pc[p] = "save"
            /\ pc'[p] = "render"
            /\ key = tabKey(tab[p])
            /\ resultsByTab'[key] = result[p]]_vars

\* a scan wrote its report and rendered it
C25_Witness ==
  /\ ui = "results"
  /\ \E key \in DOMAIN resultsByTab : resultsByTab[key].note = "basic"

\* round(100 * passed / total), a half rounded up, and 0 when total is 0
roundedPercent(passed, total) ==
  IF total = 0 THEN 0
  ELSE CHOOSE c \in 0..100 :
         /\ 2 * total * c - total <= 200 * passed
         /\ 200 * passed < 2 * total * c + total

\* C26: in every report a scan of the part_002 runner returns, filtered by
\* impact or not, statistics.automatedCoverage is round(100 * passed /
\* total) of the report's own sequences, and 0 when they are all empty.
C26_CoverageFollowsSequences ==
  (path # "none" /\ runner = "part_002") =>
    report.statistics.automatedCoverage =
      roundedPercent(Len(report.passes),
                     Len(report.violations) + Len(report.passes)
                       + Len(report.incomplete) + Len(report.inapplicable))

\* C29: filterByImpact does not modify the report it is given: after
\* handleScan filtered it, the report normalizeResults returned has the
\* four sequences and the statistics it had before the call.
C29_FilterLeavesInputUnchanged ==
  path = "handleScan" => normalized.after = normalized.before

C28_NothingActiveAfterResolve ==
  /\ wait.pc = "resolved" =>
       /\ ~wait.observing
       /\ ~wait.interval
       /\ ~wait.timeout
       /\ wait.resolves = 1
  /\ wait.pc = "pending" => wait.resolves = 0

\* the wait of part_002 ended by a quiet window, before its timeout, after
\* the observer had reported a mutation
C28_Witness ==
  /\ wait.pc = "resolved"
  /\ wait.script = "part_002"
  /\ wait.resolvedAt < wait.maxWaitMs
  /\ wait.observed # <<>>
  /\ wait.resolves = 1

====
